---- MODULE Spec2Model ----
(***************************************************************************)
(* Model of the output-evaluation pipeline of analyze_outputs.py:          *)
(*   discover_runs -> reconstruct_lineage -> assign_sequences ->           *)
(*   compute_run_metrics -> summarize_sequences  (evaluate_outputs).       *)
(*                                                                         *)
(* Encoding.  Strings (directory names, timestamps, section labels) are    *)
(* positive integer codes whose order is the strings' order; equal codes   *)
(* are equal strings.  File contents are identifiers into small content    *)
(* libraries (DocLib, ReviewLib); a SHA-256 digest is injective on the     *)
(* contents considered, so a digest is represented by the identifier of    *)
(* the content it was taken of.  Python's None is the integer None (a      *)
(* value outside every range of the model) for numbers and codes, the      *)
(* string NoStatus for statuses and the empty tuple NoSeq for sequence     *)
(* identifiers.  A run directory's section_files is None when it has no    *)
(* file under sections/ and BadBytes when one of them is not UTF-8 text;   *)
(* section files that are text change nothing that is carried.             *)
(* A RunRecord object is identified by                                     *)
(* its position in the list `runs` (the list is never reordered after      *)
(* discover_runs returns), so `sequences` holds positions.                 *)
(* RunRecord fields that no later stage reads (output_dir, manifest,       *)
(* design_doc_exists, the section_artifacts fields) are not carried.       *)
(***************************************************************************)
EXTENDS Integers, Sequences, FiniteSets, TLC

VARIABLES tree, plateau_window, convergence_threshold,
          runs, sequences, run_metrics, sequence_summaries, pc,
          orch, fs

vars == <<tree, plateau_window, convergence_threshold,
          runs, sequences, run_metrics, sequence_summaries, pc,
          orch, fs>>

None == -1000000

\* run_top_orchestrator has not been called: it has no frame and has
\* created no run directory.
OrchIdle == [pc |-> "idle"]
NoStatus == "<none>"
NoSeq == <<>>

(***************************************************************************)
(* Bounds of the inputs.                                                   *)
(***************************************************************************)
MaxRuns == 3
MaxTimestamp == 3
MaxLoadDirs == 2
MaxChain == 4

(***************************************************************************)
(* Generic helpers.                                                        *)
(***************************************************************************)
Range(s) == {s[i] : i \in DOMAIN s}

Max2(a, b) == IF a >= b THEN a ELSE b
Min2(a, b) == IF a <= b THEN a ELSE b
Abs(x) == IF x < 0 THEN -x ELSE x

\* Python truthiness of an Optional[str] (codes are never the empty string).
Truthy(x) == x # None

(***************************************************************************)
(* Ordering key (timestamp, run_id) and Python's stable list.sort on it.   *)
(* Lists of runs are lists of positions into `rs`.                         *)
(***************************************************************************)
KeyLess(a, b) ==
    \/ a.timestamp < b.timestamp
    \/ (a.timestamp = b.timestamp /\ a.run_id < b.run_id)

\* Insert position x into the key-sorted list s after every element whose
\* key is not greater (stability).
RECURSIVE InsertByKey(_, _, _)
InsertByKey(rs, s, x) ==
    IF s = <<>> THEN <<x>>
    ELSE IF KeyLess(rs[x], rs[Head(s)]) THEN <<x>> \o s
    ELSE <<Head(s)>> \o InsertByKey(rs, Tail(s), x)

RECURSIVE SortByKey(_, _)
SortByKey(rs, s) ==
    IF s = <<>> THEN <<>>
    ELSE InsertByKey(rs, SortByKey(rs, SubSeq(s, 1, Len(s) - 1)), s[Len(s)])

\* [x for x in s if P(x)]
FilterSeq(s, P(_)) ==
    LET F[k \in 0..Len(s)] ==
            IF k = 0 THEN <<>>
            ELSE IF P(s[k]) THEN Append(F[k - 1], s[k]) ELSE F[k - 1]
    IN  F[Len(s)]

(***************************************************************************)
(* File contents.                                                          *)
(*                                                                         *)
(* A document is a sequence of lines, each a token: token k \in            *)
(* 1..RequiredTotal is the heading line "## <k-th required section>",      *)
(* token Blank is a line of two spaces, tokens 15 and 16 are the body      *)
(* lines "body text 15" and "body text 16".  LineText gives the characters *)
(* of a line (as character codes) and DocChars those of a document, its    *)
(* lines joined by line feeds; _doc_similarity works on the characters.    *)
(* A review report is either not a JSON object (valid = FALSE) or an       *)
(* object with a "status" (NoStatus: absent or not a string) and an        *)
(* "issues" value (a list of entries, or not a list).  An issue entry is   *)
(* an object with a string "section", an object without one (section =     *)
(* None), or not an object at all.  BadBytes stands for a file whose bytes  *)
(* are not UTF-8 text; a manifest of kind "undecodable" is such a file.    *)
(***************************************************************************)
RequiredTotal == 14
Blank == 0

Issue(sec) == [is_dict |-> TRUE, section |-> sec]
NonDictIssue == [is_dict |-> FALSE, section |-> None]

Report(status, issues) ==
    [valid |-> TRUE, status |-> status, issues_is_list |-> TRUE, issues |-> issues]

ReviewLib ==
    << [valid |-> FALSE, status |-> NoStatus, issues_is_list |-> FALSE, issues |-> <<>>],
       Report("PASS", <<>>),
       Report("FAIL", <<Issue(1)>>),
       Report("FAIL", <<Issue(1), Issue(2)>>),
       Report("FAIL", <<Issue(2)>>),
       Report("FAIL", <<Issue(1), Issue(1), Issue(None)>>),
       [valid |-> TRUE, status |-> NoStatus, issues_is_list |-> FALSE, issues |-> <<>>],
       Report("MISSING", <<NonDictIssue, Issue(3)>>) >>

DocLib ==
    << <<>>,
       <<1, 15>>,
       <<1, 15, Blank>>,
       <<1, 2, 15>>,
       <<1, 2, 3, 16>>,
       <<1, 2, 16, 3>> >>

BadBytes == 99

ManifestKinds == {"absent", "invalid", "nonobject", "object", "undecodable"}

(***************************************************************************)
(* Artifact loader.                                                        *)
(***************************************************************************)
\* _sha256_file: None for a missing file, else the digest of its bytes.
Sha256File(content) == IF content = None THEN None ELSE content

\* _safe_read_text: "" for a missing file.
SafeReadText(doc) == IF doc = None THEN <<>> ELSE DocLib[doc]

\* A slip that returns whatever json.loads produced.
ManifestLoads_AnyJson(d) == d.manifest \in {"object", "nonobject"}

\* _load_json(manifest_path) is not None: the file exists, is JSON, and its
\* top level is an object.
ManifestLoads(d) == d.manifest = "object"

\* _count_required_sections; the percentage is kept in tenths of a point
\* (completed * 1000 / 14 is never halfway between two tenths).
CountRequiredSections(text) ==
    LET completed == Cardinality({k \in 1..RequiredTotal : k \in Range(text)})
    IN  IF text = <<>>
        THEN [total |-> RequiredTotal, completed |-> 0, pct |-> 0]
        ELSE [total |-> RequiredTotal, completed |-> completed,
              pct |-> (2 * completed * 1000 + RequiredTotal)
                          \div (2 * RequiredTotal)]

\* _parse_review_report: (status, issue count, issue sections, raw hash).
ParseReviewReport(review) ==
    LET exists == review # None
        loaded == exists /\ ReviewLib[review].valid
    IN  IF ~loaded
        THEN [status |-> IF exists THEN "MISSING" ELSE NoStatus,
              count |-> None, sections |-> {}, hash |-> Sha256File(review)]
        ELSE LET data == ReviewLib[review]
                 issues == IF data.issues_is_list THEN data.issues ELSE <<>>
             IN [status |-> data.status,
                 count |-> Len(issues),
                 sections |-> {issues[i].section : i \in
                                 {j \in DOMAIN issues :
                                    issues[j].is_dict /\ issues[j].section # None}},
                 hash |-> Sha256File(review)]

\* The RunRecord built for one run directory with a loadable manifest.
LoadRun(d) ==
    LET text == SafeReadText(d.doc)
        req == CountRequiredSections(text)
        qa == ParseReviewReport(d.review)
    IN  [run_id |-> d.name,
         run_dir |-> <<d.parent, d.name>>,
         timestamp |-> IF d.timestamp # None THEN d.timestamp ELSE d.name,
         qa_status |-> qa.status,
         qa_issue_count |-> qa.count,
         qa_issue_sections |-> qa.sections,
         design_doc_text |-> text,
         design_doc_hash |-> Sha256File(d.doc),
         review_report_hash |-> qa.hash,
         previous_design_doc_hash |-> Sha256File(d.prev_doc),
         previous_review_report_hash |-> Sha256File(d.prev_review),
         required_sections_total |-> req.total,
         required_sections_completed |-> req.completed,
         required_sections_completion_pct |-> req.pct,
         parent_run_id |-> None,
         sequence_id |-> NoSeq,
         sequence_index |-> None]

\* Path.read_text(encoding="utf-8"), lines 67 and 74, raises
\* UnicodeDecodeError for a file that is not UTF-8 text; _load_json catches
\* json.JSONDecodeError only and _safe_read_text catches nothing.
ReadTextRaises(content) == content = BadBytes

\* The loop body of discover_runs raises for directory d: in _load_json of
\* the manifest (line 137), in _safe_read_text of the document (line 145),
\* in the read_text of a section file (line 146 through line 106) or in
\* _load_json of the report (line 147 through line 117).  _sha256_file
\* reads bytes and does not raise.
LoadRaises(d) ==
    \/ d.manifest = "undecodable"
    \/ /\ ManifestLoads(d)
       /\ \/ ReadTextRaises(d.doc)
          \/ ReadTextRaises(d.section_files)
          \/ ReadTextRaises(d.review)

\* discover_runs raises: nothing between it and the caller of
\* evaluate_outputs catches the exception.
DiscoverRaises(t) == \E k \in DOMAIN t : LoadRaises(t[k])

\* discover_runs: the directories come in path order (sorted glob), those
\* without a loadable manifest are skipped, the records are sorted by key.
DiscoverRuns(t) ==
    LET kept == FilterSeq(t, LAMBDA d : ManifestLoads(d))
        recs == [i \in DOMAIN kept |-> LoadRun(kept[i])]
        order == SortByKey(recs, [i \in DOMAIN recs |-> i])
    IN  [i \in DOMAIN recs |-> recs[order[i]]]

(***************************************************************************)
(* Lineage reconstructor.                                                  *)
(***************************************************************************)
Positions(rs) == [i \in DOMAIN rs |-> i]

\* by_doc_hash.get(h, []) and by_report_hash.get(h, []): positions in list order.
ByDocHash(rs, h) ==
    FilterSeq(Positions(rs), LAMBDA i : Truthy(rs[i].design_doc_hash)
                                         /\ rs[i].design_doc_hash = h)
ByReportHash(rs, h) ==
    FilterSeq(Positions(rs), LAMBDA i : Truthy(rs[i].review_report_hash)
                                         /\ rs[i].review_report_hash = h)

\* A slip that always adds the report matches.
HashCandidates_Both(rs, i) ==
    (IF Truthy(rs[i].previous_design_doc_hash)
     THEN ByDocHash(rs, rs[i].previous_design_doc_hash) ELSE <<>>)
    \o (IF Truthy(rs[i].previous_review_report_hash)
        THEN ByReportHash(rs, rs[i].previous_review_report_hash) ELSE <<>>)

\* The unfiltered parent candidates of run i: document matches, else report matches.
HashCandidates(rs, i) ==
    LET byDoc == IF Truthy(rs[i].previous_design_doc_hash)
                 THEN ByDocHash(rs, rs[i].previous_design_doc_hash) ELSE <<>>
    IN  IF byDoc = <<>> /\ Truthy(rs[i].previous_review_report_hash)
        THEN ByReportHash(rs, rs[i].previous_review_report_hash)
        ELSE byDoc

\* A slip that drops the timestamp test of line 193.
IsEarlierOther_AnyTime(rs, c, i) == rs[c].run_id # rs[i].run_id

\* The filter of line 193: not the run's own id, strictly earlier timestamp.
IsEarlierOther(rs, c, i) ==
    rs[c].run_id # rs[i].run_id /\ rs[c].timestamp < rs[i].timestamp

ParentCandidates(rs, i) ==
    FilterSeq(HashCandidates(rs, i), LAMBDA c : IsEarlierOther(rs, c, i))

\* A slip that drops the sort of line 196 and takes the last candidate in
\* list order.
ChooseParent_Unsorted(rs, i) ==
    LET cands == ParentCandidates(rs, i)
    IN  IF cands = <<>> THEN rs[i].parent_run_id
        ELSE rs[cands[Len(cands)]].run_id

\* The parent_run_id of run i after the loop body ran for it.
ChooseParent(rs, i) ==
    LET cands == SortByKey(rs, ParentCandidates(rs, i))
    IN  IF cands = <<>> THEN rs[i].parent_run_id
        ELSE rs[cands[Len(cands)]].run_id

\* A slip that also starts every run at sequence index 0.
ReconstructLineage_InitIndex(rs) ==
    [i \in DOMAIN rs |-> [rs[i] EXCEPT !.parent_run_id = ChooseParent(rs, i),
                                       !.sequence_index = 0]]

\* reconstruct_lineage: the loop reads only fields it never writes.
ReconstructLineage(rs) ==
    [i \in DOMAIN rs |-> [rs[i] EXCEPT !.parent_run_id = ChooseParent(rs, i)]]

(***************************************************************************)
(* Sequence builder.                                                       *)
(***************************************************************************)
RunIds(rs) == {rs[i].run_id : i \in DOMAIN rs}

\* run.parent_run_id and run.parent_run_id in by_id
HasLoadedParent(rs, i) ==
    Truthy(rs[i].parent_run_id) /\ rs[i].parent_run_id \in RunIds(rs)

\* children.get(id, []) after the per-list sort.
Children(rs, id) ==
    SortByKey(rs, FilterSeq(Positions(rs),
                  LAMBDA i : HasLoadedParent(rs, i) /\ rs[i].parent_run_id = id))

Roots(rs) ==
    SortByKey(rs, FilterSeq(Positions(rs), LAMBDA i : ~HasLoadedParent(rs, i)))

\* The while loop of lines 224-230.
RECURSIVE Bfs(_, _, _, _)
Bfs(rs, queue, visited, seq_runs) ==
    IF queue = <<>> THEN [visited |-> visited, seq_runs |-> seq_runs]
    ELSE LET current == Head(queue)
         IN  IF rs[current].run_id \in visited
             THEN Bfs(rs, Tail(queue), visited, seq_runs)
             ELSE Bfs(rs, Tail(queue) \o Children(rs, rs[current].run_id),
                      visited \cup {rs[current].run_id},
                      Append(seq_runs, current))

\* A slip that keeps the traversal order.
SortMembers_Unsorted(rs, seq_runs) == seq_runs

\* Line 231: the members of a sequence, re-sorted by key.
SortMembers(rs, seq_runs) == SortByKey(rs, seq_runs)

\* sequence_id: f"seq_{run_dir.parent.name}_{seq_num:03d}"
SeqId(r, seq_num) == <<r.run_dir[1], seq_num>>

\* Lines 232-234: members get the sequence id and their 1-based rank.
Stamp(rs, members, seq_id) ==
    [i \in DOMAIN rs |->
        IF \E k \in DOMAIN members : members[k] = i
        THEN [rs[i] EXCEPT !.sequence_id = seq_id,
                           !.sequence_index =
                               CHOOSE k \in DOMAIN members : members[k] = i]
        ELSE rs[i]]

\* The loop over roots, lines 217-235.  st = [rs, visited, sequences, seq_num].
RECURSIVE RootLoop(_, _)
RootLoop(st, roots) ==
    IF roots = <<>> THEN st
    ELSE LET root == Head(roots)
         IN  IF st.rs[root].run_id \in st.visited
             THEN RootLoop(st, Tail(roots))
             ELSE LET seq_num == st.seq_num + 1
                      seq_id == SeqId(st.rs[root], seq_num)
                      b == Bfs(st.rs, <<root>>, st.visited, <<>>)
                      seq_runs == SortMembers(st.rs, b.seq_runs)
                  IN  RootLoop([rs |-> Stamp(st.rs, seq_runs, seq_id),
                                visited |-> b.visited,
                                sequences |-> Append(st.sequences, seq_runs),
                                seq_num |-> seq_num],
                               Tail(roots))

\* The loop over orphaned runs, lines 237-242.
RECURSIVE OrphanLoop(_, _)
OrphanLoop(st, orphaned) ==
    IF orphaned = <<>> THEN st
    ELSE LET run == Head(orphaned)
             seq_num == st.seq_num + 1
         IN  OrphanLoop([rs |-> Stamp(st.rs, <<run>>, SeqId(st.rs[run], seq_num)),
                         visited |-> st.visited,
                         sequences |-> Append(st.sequences, <<run>>),
                         seq_num |-> seq_num],
                        Tail(orphaned))

\* assign_sequences: the annotated runs and the returned sequences.
AssignSequences(rs) ==
    LET afterRoots == RootLoop([rs |-> rs, visited |-> {}, sequences |-> <<>>,
                                seq_num |-> 0], Roots(rs))
        orphaned == FilterSeq(Positions(rs),
                              LAMBDA i : rs[i].run_id \notin afterRoots.visited)
        final == OrphanLoop(afterRoots, orphaned)
    IN  [runs |-> final.rs, sequences |-> final.sequences]

(***************************************************************************)
(* Metrics engine.  Ratios and scores are kept in units of 1/10000 (the    *)
(* code rounds them to 4 decimals), percentages in tenths of a point.      *)
(***************************************************************************)
Scale == 10000
RegressingBelow == 4500

\* by_id.get(id): the last run of the list carrying the id, None if there is none.
ById(rs, id) ==
    IF id \in RunIds(rs)
    THEN CHOOSE i \in DOMAIN rs :
            rs[i].run_id = id /\ \A j \in DOMAIN rs : rs[j].run_id = id => j <= i
    ELSE None

\* parent = by_id.get(run.parent_run_id) if run.parent_run_id else None
ParentOf(rs, i) ==
    IF Truthy(rs[i].parent_run_id) THEN ById(rs, rs[i].parent_run_id) ELSE None

\* The characters of a line, as character codes.
LineText(tok) ==
    << <<35, 35, 32, 80, 114, 111, 98, 108, 101, 109, 32, 83, 116, 97, 116, 101, 109, 101, 110, 116>> (* ## Problem Statement *),
       <<35, 35, 32, 71, 111, 97, 108, 115>> (* ## Goals *),
       <<35, 35, 32, 78, 111, 110, 45, 71, 111, 97, 108, 115>> (* ## Non-Goals *),
       <<35, 35, 32, 67, 111, 110, 116, 101, 120, 116, 32, 38, 32, 67, 111, 110, 115, 116, 114, 97, 105, 110, 116, 115>> (* ## Context & Constraints *),
       <<35, 35, 32, 65, 114, 99, 104, 105, 116, 101, 99, 116, 117, 114, 101, 32, 79, 118, 101, 114, 118, 105, 101, 119>> (* ## Architecture Overview *),
       <<35, 35, 32, 68, 97, 116, 97, 32, 68, 101, 115, 105, 103, 110>> (* ## Data Design *),
       <<35, 35, 32, 65, 80, 73, 32, 47, 32, 73, 110, 116, 101, 114, 102, 97, 99, 101, 32, 67, 111, 110, 116, 114, 97, 99, 116, 115>> (* ## API / Interface Contracts *),
       <<35, 35, 32, 78, 111, 110, 45, 70, 117, 110, 99, 116, 105, 111, 110, 97, 108, 32, 82, 101, 113, 117, 105, 114, 101, 109, 101, 110, 116, 115>> (* ## Non-Functional Requirements *),
       <<35, 35, 32, 82, 105, 115, 107, 115, 32, 38, 32, 77, 105, 116, 105, 103, 97, 116, 105, 111, 110, 115>> (* ## Risks & Mitigations *),
       <<35, 35, 32, 82, 111, 108, 108, 111, 117, 116, 32, 80, 108, 97, 110>> (* ## Rollout Plan *),
       <<35, 35, 32, 84, 101, 115, 116, 32, 83, 116, 114, 97, 116, 101, 103, 121>> (* ## Test Strategy *),
       <<35, 35, 32, 68, 101, 99, 105, 115, 105, 111, 110, 32, 76, 111, 103>> (* ## Decision Log *),
       <<35, 35, 32, 80, 114, 105, 111, 114, 32, 81, 65, 32, 82, 101, 112, 111, 114, 116, 32, 82, 101, 118, 105, 101, 119>> (* ## Prior QA Report Review *),
       <<35, 35, 32, 65, 115, 115, 117, 109, 112, 116, 105, 111, 110, 115>> (* ## Assumptions *),
       <<98, 111, 100, 121, 32, 116, 101, 120, 116, 32, 49, 53>> (* body text 15 *),
       <<98, 111, 100, 121, 32, 116, 101, 120, 116, 32, 49, 54>> (* body text 16 *) ,
       <<32, 32>> >>[IF tok = Blank THEN 17 ELSE tok]

\* The characters of a document: its lines joined by line feeds (code 10).
RECURSIVE DocChars(_)
DocChars(text) ==
    IF text = <<>> THEN <<>>
    ELSE IF Len(text) = 1 THEN LineText(text[1])
    ELSE LineText(text[1]) \o <<10>> \o DocChars(Tail(text))

\* The characters str.rstrip and str.strip remove (ASCII).
WhiteSpace == {9, 10, 11, 12, 13, 28, 29, 30, 31, 32}

\* text.replace("\r\n", "\n").replace("\r", "\n")
UnifyLineEnds(s) ==
    LET kept == FilterSeq([k \in DOMAIN s |-> k],
                          LAMBDA k : ~(s[k] = 13 /\ k < Len(s) /\ s[k + 1] = 10))
    IN  [k \in DOMAIN kept |-> IF s[kept[k]] = 13 THEN 10 ELSE s[kept[k]]]

\* line.rstrip() for every line: a white space character goes when only
\* white space lies between it and the end of its line.
RStripLines(s) ==
    LET Trailing(k) ==
            /\ s[k] \in WhiteSpace \ {10}
            /\ \E e \in k..Len(s) :
                   /\ \A x \in k..e : s[x] \in WhiteSpace \ {10}
                   /\ e = Len(s) \/ s[e + 1] = 10
        kept == FilterSeq([k \in DOMAIN s |-> k], LAMBDA k : ~Trailing(k))
    IN  [k \in DOMAIN kept |-> s[kept[k]]]

\* str.strip()
Strip(s) ==
    LET inner == {k \in DOMAIN s : s[k] \notin WhiteSpace}
    IN  IF inner = {} THEN <<>>
        ELSE LET lo == CHOOSE k \in inner : \A x \in inner : k <= x
                 hi == CHOOSE k \in inner : \A x \in inner : k >= x
             IN  [k \in 1..(hi - lo + 1) |-> s[lo + k - 1]]

\* _normalize_text, on the characters of a text.
NormalizeText(s) == Strip(RStripLines(UnifyLineEnds(s)))

\* difflib's autojunk: in a second sequence of 200 or more elements, the
\* elements that occur more than len // 100 + 1 times start no match.
Popular(b) ==
    IF Len(b) < 200 THEN {}
    ELSE {x \in Range(b) :
            Cardinality({j \in DOMAIN b : b[j] = x}) > (Len(b) \div 100) + 1}

\* The least element of a non-empty set of numbers.
SetMin(S) == CHOOSE x \in S : \A y \in S : x <= y

\* The length of the common block of elements that are not popular which
\* starts at a[i], b[j].
BlockLen(a, b, i, j, ahi, bhi, popular) ==
    LET limit == Min2(ahi - i, bhi - j)
        stops == {k \in 0..(limit - 1) :
                     a[i + k] # b[j + k] \/ b[j + k] \in popular}
    IN  IF stops = {} THEN Max2(limit, 0) ELSE SetMin(stops)

\* How far a match ending before a[i], b[j] extends to the left, and one
\* starting at a[i], b[j] to the right, over equal elements.
ExtendLeft(a, b, i, j, alo, blo) ==
    LET limit == Min2(i - alo, j - blo)
        stops == {k \in 0..(limit - 1) : a[i - 1 - k] # b[j - 1 - k]}
    IN  IF stops = {} THEN Max2(limit, 0) ELSE SetMin(stops)

ExtendRight(a, b, i, j, ahi, bhi) ==
    LET limit == Min2(ahi - i, bhi - j)
        stops == {k \in 0..(limit - 1) : a[i + k] # b[j + k]}
    IN  IF stops = {} THEN Max2(limit, 0) ELSE SetMin(stops)

\* difflib.SequenceMatcher.find_longest_match on a[alo..ahi-1], b[blo..bhi-1]
\* (1-based, no junk function): the longest common block of elements that
\* are not popular, earliest in a, then in b, extended on both sides over
\* equal elements; when there is no such block, the empty block at alo, blo
\* is extended in the same way.
FindLongestMatch(a, b, alo, ahi, blo, bhi) ==
    LET popular == Popular(b)
        starts == {c \in (alo..(ahi - 1)) \X (blo..(bhi - 1)) :
                      /\ a[c[1]] = b[c[2]]
                      /\ b[c[2]] \notin popular
                      /\ ~(c[1] > alo /\ c[2] > blo /\ a[c[1] - 1] = b[c[2] - 1]
                           /\ b[c[2] - 1] \notin popular)}
        Pick(len) ==
            LET longest == CHOOSE n \in Range(len) : \A m \in Range(len) : m <= n
                cands == {c \in starts : len[c] = longest}
                i == CHOOSE x \in {c[1] : c \in cands} :
                         \A c \in cands : x <= c[1]
                j == CHOOSE y \in {c[2] : c \in {d \in cands : d[1] = i}} :
                         \A c \in {d \in cands : d[1] = i} : y <= c[2]
                left == ExtendLeft(a, b, i, j, alo, blo)
                right == ExtendRight(a, b, i + longest, j + longest, ahi, bhi)
            IN  <<i - left, j - left, left + longest + right>>
    IN  IF starts = {} THEN <<alo, blo, ExtendRight(a, b, alo, blo, ahi, bhi)>>
        ELSE CHOOSE m \in {Pick(len) :
                             len \in {[c \in starts |->
                                         BlockLen(a, b, c[1], c[2], ahi, bhi, popular)]}} :
                 TRUE

\* Sum of the sizes of get_matching_blocks.
RECURSIVE MatchCount(_, _, _, _, _, _)
MatchCount(a, b, alo, ahi, blo, bhi) ==
    LET m == FindLongestMatch(a, b, alo, ahi, blo, bhi)
    IN  IF m[3] = 0 THEN 0
        ELSE m[3] + MatchCount(a, b, alo, m[1], blo, m[2])
                  + MatchCount(a, b, m[1] + m[3], ahi, m[2] + m[3], bhi)

\* (r * 2^k) mod d.
RECURSIVE DoubleMod(_, _, _)
DoubleMod(r, d, k) == IF k = 0 THEN r ELSE DoubleMod((2 * r) % d, d, k - 1)

\* The exponent of n / d: the k with 1 <= (n / d) * 2^k < 2, for n, d > 0.
RECURSIVE Doublings(_, _)
Doublings(x, d) ==
    IF x < d THEN 1 + Doublings(2 * x, d)
    ELSE IF x >= 2 * d THEN Doublings(x, 2 * d) - 1
    ELSE 0

\* round(x, 4) * Scale for the double x nearest to n / (d * Scale), n >= 0,
\* d > 0.  When n / d is halfway between two integers, x is the exact value
\* rounded to 53 significant bits: round() goes where x lies, and to the
\* even neighbour when x is exact.  The remainder of the 53-bit quotient
\* tells which.
RoundDiv(n, d) ==
    LET q == n \div d
        r == n % d
        rem == DoubleMod(n % (d * Scale), d * Scale,
                         Doublings(n, d * Scale) + 52)
    IN  IF 2 * r < d THEN q
        ELSE IF 2 * r > d THEN q + 1
        ELSE IF rem = 0 THEN (IF q % 2 = 0 THEN q ELSE q + 1)
        ELSE IF 2 * rem > d * Scale THEN q + 1
        ELSE q

\* SequenceMatcher.ratio, rounded to 4 decimals.
Ratio(a, b) ==
    LET total == Len(a) + Len(b)
    IN  IF total = 0 THEN Scale
        ELSE RoundDiv(2 * MatchCount(a, b, 1, Len(a) + 1, 1, Len(b) + 1) * Scale, total)

\* _doc_similarity
DocSimilarity(a, b) ==
    IF a = <<>> \/ b = <<>> THEN None
    ELSE Ratio(NormalizeText(DocChars(a)), NormalizeText(DocChars(b)))

\* _doc_similarity of every pair of library documents, computed once: the
\* triples <<a, b, _doc_similarity(a, b)>>.
SimilarityTable ==
    {<<p[1], p[2], DocSimilarity(p[1], p[2])>> : p \in Range(DocLib) \X Range(DocLib)}

\* _doc_similarity(a, b), looked up for library documents.
SimilarityOf(a, b) ==
    (CHOOSE t \in SimilarityTable : t[1] = a /\ t[2] = b)[3]

\* A slip that leaves the quality ratio unclamped.
ScoreFraction_NoClamp(pcount, rcount, introduced, completion_delta, similarity) ==
    LET known == pcount # None /\ rcount # None
        m == Max2(pcount, 1)
        qn == IF known THEN (pcount - rcount) + m ELSE 1
        qd == IF known THEN 2 * m ELSE 2
        cd == Max2(-1000, Min2(1000, completion_delta))
        sim == IF similarity # None THEN similarity ELSE 0
        denom == Max2(rcount + introduced, 1)
        rn == IF rcount = None THEN 1 ELSE denom - Min2(introduced, denom)
        rd == IF rcount = None THEN 2 ELSE denom
    IN  << 40000 * qn * rd + 15 * (cd + 1000) * qd * rd
           + 2 * sim * qd * rd + 10000 * rn * qd,
           10 * qd * rd >>

\* The exact value of the weighted sum of lines 305-308, times 10000, as a
\* fraction <<numerator, denominator>>:
\*   quality_norm = qn / qd, regression_penalty = rn / rd,
\*   completion_norm = (delta + 1000) / 2000, stability = sim / 10000.
ScoreFraction(pcount, rcount, introduced, completion_delta, similarity) ==
    LET known == pcount # None /\ rcount # None
        m == Max2(pcount, 1)
        diff == Max2(-m, Min2(m, pcount - rcount))
        qn == IF known THEN diff + m ELSE 1
        qd == IF known THEN 2 * m ELSE 2
        cd == Max2(-1000, Min2(1000, completion_delta))
        sim == IF similarity # None THEN similarity ELSE 0
        denom == Max2(rcount + introduced, 1)
        rn == IF rcount = None THEN 1 ELSE denom - Min2(introduced, denom)
        rd == IF rcount = None THEN 2 ELSE denom
    IN  << 40000 * qn * rd + 15 * (cd + 1000) * qd * rd
           + 2 * sim * qd * rd + 10000 * rn * qd,
           10 * qd * rd >>

\* The exact value lies halfway between two multiples of 1/10000.
IsTie(frac) == (2 * frac[1]) % (2 * frac[2]) = frac[2]

\* A slip that computes the score only when both issue counts are known.
ConvergenceScore_KnownOnly(pcount, rcount, introduced, completion_delta, similarity, up) ==
    IF pcount = None \/ rcount = None THEN None
    ELSE LET frac == ScoreFraction(pcount, rcount, introduced, completion_delta,
                                   similarity)
         IN  IF IsTie(frac) THEN (frac[1] \div frac[2]) + (IF up THEN 1 ELSE 0)
             ELSE RoundDiv(frac[1], frac[2])

\* round(..., 4) of the sum.  The code adds binary floating point numbers,
\* so a value that is exactly halfway is rounded to either neighbour,
\* depending on the accumulated error: `up` selects which.
ConvergenceScore(pcount, rcount, introduced, completion_delta, similarity, up) ==
    LET frac == ScoreFraction(pcount, rcount, introduced, completion_delta, similarity)
    IN  IF IsTie(frac) THEN (frac[1] \div frac[2]) + (IF up THEN 1 ELSE 0)
        ELSE RoundDiv(frac[1], frac[2])

\* A slip that hardwires the default threshold.
ConvergenceLabel_Hardwired(score, threshold) ==
    IF score >= 7500 THEN "converging"
    ELSE IF score < RegressingBelow THEN "regressing"
    ELSE "mixed"

\* Lines 311-316.
ConvergenceLabel(score, threshold) ==
    IF score >= threshold THEN "converging"
    ELSE IF score < RegressingBelow THEN "regressing"
    ELSE "mixed"

\* A slip that rates two empty issue sets as identical.
IssueJaccard_EmptyIsOne(unchanged, union) ==
    IF union = 0 THEN Scale ELSE RoundDiv(unchanged * Scale, union)

\* issue_jaccard, line 281.
IssueJaccard(unchanged, union) ==
    IF union = 0 THEN 0 ELSE RoundDiv(unchanged * Scale, union)

\* A slip that subtracts the other way round.
QaIssueDelta_Reversed(pcount, rcount) ==
    IF pcount # None /\ rcount # None THEN rcount - pcount ELSE None

\* qa_issue_delta_vs_parent, lines 287-288.
QaIssueDelta(pcount, rcount) ==
    IF pcount # None /\ rcount # None THEN pcount - rcount ELSE None

\* One pass of the loop of compute_run_metrics, for the run at position i.
RunMetric(rs, i, threshold, up) ==
    LET run == rs[i]
        p == ParentOf(rs, i)
        base == [run_id |-> run.run_id,
                 timestamp |-> run.timestamp,
                 sequence_id |-> run.sequence_id,
                 sequence_index |-> run.sequence_index,
                 parent_run_id |-> run.parent_run_id,
                 qa_status |-> run.qa_status,
                 qa_issue_count |-> run.qa_issue_count,
                 qa_issue_sections |-> run.qa_issue_sections,
                 required_sections_completion_pct |-> run.required_sections_completion_pct,
                 resolved_issues_vs_parent |-> None,
                 introduced_issues_vs_parent |-> None,
                 unchanged_issues_vs_parent |-> None,
                 issue_jaccard_vs_parent |-> None,
                 doc_similarity_vs_parent |-> None,
                 completion_delta_pct_vs_parent |-> None,
                 qa_issue_delta_vs_parent |-> None,
                 convergence_score |-> None,
                 convergence_label |-> "baseline"]
    IN  IF p = None THEN base
        ELSE LET parent == rs[p]
                 parent_issues == parent.qa_issue_sections
                 current_issues == run.qa_issue_sections
                 introduced == Cardinality(current_issues \ parent_issues)
                 unchanged == Cardinality(parent_issues \cap current_issues)
                 union == Cardinality(parent_issues \cup current_issues)
                 similarity == SimilarityOf(parent.design_doc_text, run.design_doc_text)
                 completion_delta == run.required_sections_completion_pct
                                       - parent.required_sections_completion_pct
                 score == ConvergenceScore(parent.qa_issue_count, run.qa_issue_count,
                                           introduced, completion_delta, similarity, up)
             IN  [base EXCEPT
                    !.resolved_issues_vs_parent =
                        Cardinality(parent_issues \ current_issues),
                    !.introduced_issues_vs_parent = introduced,
                    !.unchanged_issues_vs_parent = unchanged,
                    !.issue_jaccard_vs_parent = IssueJaccard(unchanged, union),
                    !.doc_similarity_vs_parent = similarity,
                    !.completion_delta_pct_vs_parent = completion_delta,
                    !.qa_issue_delta_vs_parent =
                        QaIssueDelta(parent.qa_issue_count, run.qa_issue_count),
                    !.convergence_score = score,
                    !.convergence_label = ConvergenceLabel(score, threshold)]

\* The runs whose score is exactly halfway between two roundings.
TieRuns(rs) ==
    {i \in DOMAIN rs :
        /\ ParentOf(rs, i) # None
        /\ LET parent == rs[ParentOf(rs, i)]
           IN  IsTie(ScoreFraction(
                   parent.qa_issue_count, rs[i].qa_issue_count,
                   Cardinality(rs[i].qa_issue_sections \ parent.qa_issue_sections),
                   rs[i].required_sections_completion_pct
                     - parent.required_sections_completion_pct,
                   SimilarityOf(parent.design_doc_text, rs[i].design_doc_text)))}

\* compute_run_metrics: one metric per run, in list order; ups is the set of
\* runs whose halfway score rounds up.
ComputeRunMetrics(rs, threshold, ups) ==
    [i \in DOMAIN rs |-> RunMetric(rs, i, threshold, i \in ups)]

(***************************************************************************)
(* Sequence summarizer.                                                    *)
(***************************************************************************)
StableSimilarity == 9500
StableCompletionDelta == 10
UnknownCountRank == 1000000000

\* _sign
Sign(value) == IF value > 0 THEN 1 ELSE IF value < 0 THEN -1 ELSE 0

\* metric_by_run[run_id]: a dict keyed by run_id keeps the last metric of an id.
MetricByRun(rs, ms, id) == ms[ById(rs, id)]

\* Lines 375-383: differences between consecutive known issue counts.
RECURSIVE CountDeltas(_, _)
CountDeltas(metrics, prev_count) ==
    IF metrics = <<>> THEN <<>>
    ELSE LET count == Head(metrics).qa_issue_count
         IN  IF count = None THEN CountDeltas(Tail(metrics), prev_count)
             ELSE (IF prev_count # None THEN <<count - prev_count>> ELSE <<>>)
                  \o CountDeltas(Tail(metrics), count)

\* Lines 384-392: a nonzero sign that differs from the last nonzero sign.
RECURSIVE Oscillates(_, _)
Oscillates(deltas, last_nonzero_sign) ==
    IF deltas = <<>> THEN FALSE
    ELSE LET s == Sign(Head(deltas))
         IN  IF s = 0 THEN Oscillates(Tail(deltas), last_nonzero_sign)
             ELSE IF last_nonzero_sign # 0 /\ s # last_nonzero_sign THEN TRUE
             ELSE Oscillates(Tail(deltas), s)

OscillationDetected(metrics) == Oscillates(CountDeltas(metrics, None), 0)

\* Lines 400-411: the plateau test on the last `window` metrics.
StablePlateau(metrics, window) ==
    LET n == Len(metrics)
        tail == SubSeq(metrics, n - window + 1, n)
        rest == {k \in DOMAIN tail : k > 1}
        same_count == \A k \in DOMAIN tail :
                          tail[k].qa_issue_count # None
                          /\ tail[k].qa_issue_count = tail[1].qa_issue_count
        no_new_issues == \A k \in rest :
                          tail[k].introduced_issues_vs_parent \in {0, None}
        stable_docs == \A k \in rest :
                          tail[k].doc_similarity_vs_parent # None
                          /\ tail[k].doc_similarity_vs_parent >= StableSimilarity
        stable_completion == \A k \in rest :
                          tail[k].completion_delta_pct_vs_parent # None
                          /\ Abs(tail[k].completion_delta_pct_vs_parent)
                               <= StableCompletionDelta
    IN  same_count /\ no_new_issues /\ stable_docs /\ stable_completion

\* Lines 394-413: (converged, reason).
Verdict(metrics, window) ==
    IF metrics[Len(metrics)].qa_status = "PASS"
    THEN [converged |-> TRUE, reason |-> "Final run passed QA"]
    ELSE IF Len(metrics) >= window /\ window >= 2 /\ StablePlateau(metrics, window)
    THEN [converged |-> TRUE, reason |-> "Stable plateau across recent runs"]
    ELSE [converged |-> FALSE,
          reason |-> "No PASS and no stable plateau with improvement"]

\* The key of lines 417-422 and Python's tuple order on it.
BestKey(m) ==
    << IF m.qa_status = "PASS" THEN 1 ELSE 0,
       -(IF m.qa_issue_count # None THEN m.qa_issue_count ELSE UnknownCountRank),
       m.required_sections_completion_pct,
       m.timestamp >>

RECURSIVE TupleLess(_, _)
TupleLess(x, y) ==
    IF x = <<>> \/ y = <<>> THEN x = <<>> /\ y # <<>>
    ELSE Head(x) < Head(y) \/ (Head(x) = Head(y) /\ TupleLess(Tail(x), Tail(y)))

\* max(metrics, key=...): the first metric whose key no other exceeds.
BestMetric(metrics) ==
    LET k == CHOOSE i \in DOMAIN metrics :
                /\ \A j \in DOMAIN metrics :
                       ~TupleLess(BestKey(metrics[i]), BestKey(metrics[j]))
                /\ \A j \in DOMAIN metrics :
                       j < i => TupleLess(BestKey(metrics[j]), BestKey(metrics[i]))
    IN  metrics[k]

\* One pass of the loop of summarize_sequences, for one returned sequence.
Summary(rs, ms, members, window) ==
    LET seq_runs == SortByKey(rs, members)
        n == Len(seq_runs)
        ids == [k \in DOMAIN seq_runs |-> rs[seq_runs[k]].run_id]
        metrics == [k \in DOMAIN seq_runs |->
                       MetricByRun(rs, ms, rs[seq_runs[k]].run_id)]
        final == metrics[n]
        verdict == Verdict(metrics, window)
        best_metric == BestMetric(metrics)
    IN  [sequence_id |-> rs[seq_runs[1]].sequence_id,
         run_ids |-> ids,
         length |-> n,
         start_timestamp |-> rs[seq_runs[1]].timestamp,
         end_timestamp |-> rs[seq_runs[n]].timestamp,
         final_qa_status |-> final.qa_status,
         best_qa_issue_count |-> best_metric.qa_issue_count,
         final_qa_issue_count |-> final.qa_issue_count,
         best_completion_pct |-> best_metric.required_sections_completion_pct,
         final_completion_pct |-> final.required_sections_completion_pct,
         oscillation_detected |-> OscillationDetected(metrics),
         converged |-> verdict.converged,
         convergence_reason |-> verdict.reason]

\* summarize_sequences: one summary per sequence, in the order returned.
SummarizeSequences(rs, seqs, ms, window) ==
    [k \in DOMAIN seqs |-> Summary(rs, ms, seqs[k], window)]

(***************************************************************************)
(* evaluate_outputs as a state machine: one action per stage, run in the   *)
(* order of lines 451-455.  pc = "raised" is the state after an exception   *)
(* left evaluate_outputs: no stage runs any more and nothing is returned.  *)
(***************************************************************************)
Discover ==
    /\ pc = "discover"
    /\ IF DiscoverRaises(tree)
       THEN /\ runs' = runs
            /\ pc' = "raised"
       ELSE /\ runs' = DiscoverRuns(tree)
            /\ pc' = "lineage"
    /\ UNCHANGED <<tree, plateau_window, convergence_threshold,
                   sequences, run_metrics, sequence_summaries,
                   orch, fs>>

Lineage ==
    /\ pc = "lineage"
    /\ runs' = ReconstructLineage(runs)
    /\ pc' = "sequences"
    /\ UNCHANGED <<tree, plateau_window, convergence_threshold,
                   sequences, run_metrics, sequence_summaries,
                   orch, fs>>

Sequencing ==
    /\ pc = "sequences"
    /\ LET r == AssignSequences(runs)
       IN  /\ runs' = r.runs
           /\ sequences' = r.sequences
    /\ pc' = "metrics"
    /\ UNCHANGED <<tree, plateau_window, convergence_threshold,
                   run_metrics, sequence_summaries,
                   orch, fs>>

Metrics ==
    /\ pc = "metrics"
    /\ \E ups \in SUBSET TieRuns(runs) :
           run_metrics' = ComputeRunMetrics(runs, convergence_threshold, ups)
    /\ pc' = "summaries"
    /\ UNCHANGED <<tree, plateau_window, convergence_threshold,
                   runs, sequences, sequence_summaries,
                   orch, fs>>

Summarize ==
    /\ pc = "summaries"
    /\ sequence_summaries' =
           SummarizeSequences(runs, sequences, run_metrics, plateau_window)
    /\ pc' = "done"
    /\ UNCHANGED <<tree, plateau_window, convergence_threshold,
                   runs, sequences, run_metrics,
                   orch, fs>>

Next == Discover \/ Lineage \/ Sequencing \/ Metrics \/ Summarize

(***************************************************************************)
(* Input trees.  A run directory is <parent directory>/<run_* name>; a     *)
(* tree lists its run directories in path order, as the sorted glob of     *)
(* discover_runs yields them.  Two directories of a tree never share a     *)
(* path, but directories under different parents may share a name.         *)
(* Shape(n): the sets of at most n paths with names 1..a under parent 1    *)
(* and names 1..b (b <= a) under parent 2.                                 *)
(***************************************************************************)
PathLess(p, q) == p[1] < q[1] \/ (p[1] = q[1] /\ p[2] < q[2])

RECURSIVE SortedPaths(_)
SortedPaths(P) ==
    IF P = {} THEN <<>>
    ELSE LET least == CHOOSE p \in P : \A q \in P : q = p \/ PathLess(p, q)
         IN  <<least>> \o SortedPaths(P \ {least})

Shape(n) ==
    {({1} \X (1..a)) \cup ({2} \X (1..b)) :
        a \in 0..n, b \in 0..n} \cap
    {P \in SUBSET ((1..2) \X (1..n)) :
        /\ Cardinality(P) <= n
        /\ Cardinality({p \in P : p[1] = 2}) <= Cardinality({p \in P : p[1] = 1})}

\* The tree whose directories are the paths P with the files c[p].
MkTree(P, c) ==
    LET ps == SortedPaths(P)
    IN  [k \in DOMAIN ps |->
            [parent |-> ps[k][1], name |-> ps[k][2],
             manifest |-> c[ps[k]].manifest, timestamp |-> c[ps[k]].timestamp,
             doc |-> c[ps[k]].doc, review |-> c[ps[k]].review,
             prev_doc |-> c[ps[k]].prev_doc, prev_review |-> c[ps[k]].prev_review,
             section_files |-> c[ps[k]].section_files]]

Timestamps == 1..MaxTimestamp

StartState ==
    /\ plateau_window = 2
    /\ convergence_threshold = 7500
    /\ runs = <<>>
    /\ sequences = <<>>
    /\ run_metrics = <<>>
    /\ sequence_summaries = <<>>
    /\ pc = "discover"
    /\ orch = OrchIdle
    /\ fs = <<>>

(***************************************************************************)
(* Spec: trees that exercise the lineage rules.  Every manifest loads;     *)
(* each run may have a document and a report, and may have copied in a     *)
(* previous document and a previous report.                                *)
(***************************************************************************)
LineageFiles ==
    [manifest : {"object"}, timestamp : Timestamps,
     doc : {None, 2}, review : {None, 3},
     prev_doc : {None, 2}, prev_review : {None, 3}, section_files : {None}]

Init ==
    /\ \E P \in Shape(MaxRuns) : \E c \in [P -> LineageFiles] : tree = MkTree(P, c)
    /\ StartState

Spec == Init /\ [][Next]_vars

(***************************************************************************)
(* SpecLoad: trees that exercise the loader.  Manifests may be missing,    *)
(* not JSON, JSON that is not an object, or an object with or without a    *)
(* string timestamp, or bytes that are not text; the report may be         *)
(* missing, unreadable or readable; the document, the report and a file    *)
(* under sections/ may be bytes that are not text.                         *)
(***************************************************************************)
LoadFiles ==
    [manifest : ManifestKinds, timestamp : {None, 1, 2},
     doc : {None, 1, 4, BadBytes}, review : {None, 1, 2, 7, 8, BadBytes},
     prev_doc : {None}, prev_review : {None}, section_files : {None, BadBytes}]

InitLoad ==
    /\ \E P \in Shape(MaxLoadDirs) : \E c \in [P -> LoadFiles] : tree = MkTree(P, c)
    /\ StartState

SpecLoad == InitLoad /\ [][Next]_vars

(***************************************************************************)
(* SpecEval: chains of reruns.  Run k is directory 1/k with no manifest    *)
(* timestamp (so its timestamp is its name), its own document, possibly a  *)
(* copy of run k-1's document, and any of several reports.  Either every   *)
(* run has a document of its own, or the third run has the first run's     *)
(* document again and the second run one with fewer sections.  The tree    *)
(* may also hold a directory 2/1: a run directory under another parent     *)
(* whose name repeats that of run 1.                                       *)
(***************************************************************************)
ChainDoc(again, k) ==
    IF again /\ k <= 3 THEN <<4, 2, 4>>[k] ELSE k + 1

EvalReviews == {1, 2, 3, 4, 6}

ChainDir(k, review, linked, again) ==
    [parent |-> 1, name |-> k, manifest |-> "object", timestamp |-> None,
     doc |-> ChainDoc(again, k), review |-> review,
     prev_doc |-> IF linked /\ k > 1 THEN ChainDoc(again, k - 1) ELSE None,
     prev_review |-> None, section_files |-> None]

ExtraDir(review) ==
    [parent |-> 2, name |-> 1, manifest |-> "object", timestamp |-> None,
     doc |-> None, review |-> review, prev_doc |-> None, prev_review |-> None,
     section_files |-> None]

InitEval ==
    /\ \E n \in 1..MaxChain :
         \E rv \in [1..n -> EvalReviews] : \E lk \in [1..n -> BOOLEAN] :
         \E again \in BOOLEAN :
            /\ ~lk[1]
            /\ again => n >= 3
            /\ \/ tree = [k \in 1..n |-> ChainDir(k, rv[k], lk[k], again)]
               \/ \E x \in EvalReviews :
                    tree = [k \in 1..n |-> ChainDir(k, rv[k], lk[k], again)]
                             \o <<ExtraDir(x)>>
    /\ StartState

SpecEval == InitEval /\ [][Next]_vars

(***************************************************************************)
(* SpecConf: evaluate_outputs with its two parameters varied.  The tree is *)
(* a chain of reruns 1/1, 1/2, ... (timestamps are the names), each with   *)
(* a document (possibly an empty file) and a report, and possibly a copy   *)
(* of its predecessor's document; it may also hold one directory 2/k whose *)
(* name repeats that of chain run k.                                       *)
(***************************************************************************)
MaxConfChain == 2

ConfReviews == {1, 2, 3, 4, 5, 6}
ConfDocs == {1, 2, 4}
Thresholds == {2000, 7500}
Windows == {1, 2, 3}

ConfDir(parent, k, review, doc, prev_doc) ==
    [parent |-> parent, name |-> k, manifest |-> "object", timestamp |-> None,
     doc |-> doc, review |-> review, prev_doc |-> prev_doc, prev_review |-> None,
     section_files |-> None]

InitConf ==
    /\ \E n \in 1..MaxConfChain :
         \E rv \in [1..n -> ConfReviews] : \E dc \in [1..n -> ConfDocs] :
         \E lk \in [1..n -> BOOLEAN] :
            /\ ~lk[1]
            /\ LET chain == [k \in 1..n |->
                                ConfDir(1, k, rv[k], dc[k],
                                        IF lk[k] THEN dc[k - 1] ELSE None)]
               IN  \/ tree = chain
                   \/ \E k \in 1..n : \E r \in {2, 3} :
                      \E d \in {None, 2} : \E p \in {None, 2} :
                          tree = chain \o <<ConfDir(2, k, r, d, p)>>
    /\ plateau_window \in Windows
    /\ convergence_threshold \in Thresholds
    /\ runs = <<>>
    /\ sequences = <<>>
    /\ run_metrics = <<>>
    /\ sequence_summaries = <<>>
    /\ pc = "discover"
    /\ orch = OrchIdle
    /\ fs = <<>>

SpecConf == InitConf /\ [][Next]_vars

(***************************************************************************)
(* SpecOrder: reconstruct_lineage and assign_sequences on the loaded runs  *)
(* of a tree with pairwise distinct directory names, supplied in any       *)
(* order.  Directory k is named k; the last of several lies under a second *)
(* parent.  Timestamps repeat, so ties are broken by run id.               *)
(***************************************************************************)
MaxOrderRuns == 3

OrderFiles ==
    [manifest : {"object"}, timestamp : {1, 2},
     doc : {None, 2}, review : {None, 3},
     prev_doc : {None, 2}, prev_review : {None, 3}, section_files : {None}]

OrderPaths(n) ==
    ({1} \X (1..(n - 1))) \cup {<<IF n = 1 THEN 1 ELSE 2, n>>}

InitOrder ==
    /\ \E n \in 1..MaxOrderRuns : \E c \in [OrderPaths(n) -> OrderFiles] :
           /\ tree = MkTree(OrderPaths(n), c)
           /\ \E loaded \in {DiscoverRuns(tree)} :
              \E o \in Permutations(DOMAIN loaded) :
                  runs = [i \in DOMAIN loaded |-> loaded[o[i]]]
    /\ plateau_window = 2
    /\ convergence_threshold = 7500
    /\ sequences = <<>>
    /\ run_metrics = <<>>
    /\ sequence_summaries = <<>>
    /\ pc = "lineage"
    /\ orch = OrchIdle
    /\ fs = <<>>

NextOrder == Lineage \/ Sequencing

SpecOrder == InitOrder /\ [][NextOrder]_vars

(***************************************************************************)
(* SpecSeq: assign_sequences called on any list of runs with any           *)
(* parent_run_id assignment: dangling ids, cycles, repeated run ids, any   *)
(* list order.  The rest of evaluate_outputs follows.                      *)
(***************************************************************************)
BareRun(id, parent, ts, pid) ==
    [LoadRun([parent |-> parent, name |-> id, manifest |-> "object",
              timestamp |-> ts, doc |-> None, review |-> None,
              prev_doc |-> None, prev_review |-> None, section_files |-> None])
        EXCEPT !.parent_run_id = pid]

SeqRuns ==
    {BareRun(id, 1, ts, pid) :
        id \in 1..MaxRuns, ts \in 1..2, pid \in {None} \cup (1..(MaxRuns + 1))}

InitSeq ==
    /\ \E n \in 0..MaxRuns : runs \in [1..n -> SeqRuns]
    /\ tree = <<>>
    /\ plateau_window = 2
    /\ convergence_threshold = 7500
    /\ sequences = <<>>
    /\ run_metrics = <<>>
    /\ sequence_summaries = <<>>
    /\ pc = "sequences"
    /\ orch = OrchIdle
    /\ fs = <<>>

NextSeq == Sequencing \/ Metrics \/ Summarize

SpecSeq == InitSeq /\ [][NextSeq]_vars

(***************************************************************************)
(* Properties.                                                             *)
(***************************************************************************)
LineageDone == pc \in {"sequences", "metrics", "summaries", "done"}
SeqDone == pc \in {"metrics", "summaries", "done"}
MetricsDone == pc \in {"summaries", "done"}

\* The places <<k, j>> at which run i occurs in the returned sequences.
Places(i) ==
    {kj \in UNION {{<<k, j>> : j \in DOMAIN sequences[k]} : k \in DOMAIN sequences} :
        sequences[kj[1]][kj[2]] = i}

\* C1: after assign_sequences every run occurs in exactly one returned
\* sequence, once, and carries a sequence_id and a sequence_index.
C1_Partition ==
    SeqDone =>
        \A i \in DOMAIN runs :
            /\ Cardinality(Places(i)) = 1
            /\ runs[i].sequence_id # NoSeq
            /\ runs[i].sequence_index # None

\* C2: in every returned sequence the members are distinct, their
\* sequence_index values are exactly 1..length, and a member with a smaller
\* (timestamp, run_id) key has a smaller index.
C2_Indices ==
    SeqDone =>
        \A k \in DOMAIN sequences :
            LET s == sequences[k]
            IN  /\ \A a, b \in DOMAIN s : a # b => s[a] # s[b]
                /\ {runs[s[a]].sequence_index : a \in DOMAIN s} = 1..Len(s)
                /\ \A a, b \in DOMAIN s :
                       KeyLess(runs[s[a]], runs[s[b]])
                           <=> runs[s[a]].sequence_index < runs[s[b]].sequence_index

\* A sequence of three members whose traversal order is not their key order.
C2_Witness ==
    /\ SeqDone
    /\ \E k \in DOMAIN sequences :
           /\ Len(sequences[k]) = 3
           /\ \E a, b \in DOMAIN sequences[k] :
                  /\ sequences[k][a] < sequences[k][b]
                  /\ KeyLess(runs[sequences[k][b]], runs[sequences[k][a]])

\* C3: after reconstruct_lineage, the run that a set parent_run_id resolves
\* to is a loaded run other than the run itself, with a strictly earlier
\* timestamp.
C3_ParentEarlier ==
    LineageDone =>
        \A i \in DOMAIN runs :
            runs[i].parent_run_id # None =>
                LET p == ById(runs, runs[i].parent_run_id)
                IN  /\ p # None
                    /\ p # i
                    /\ runs[p].timestamp < runs[i].timestamp

\* The runs whose document (report) digest equals the previous-document
\* (previous-report) digest of run i.
DocMatches(i) ==
    {j \in DOMAIN runs :
        /\ runs[i].previous_design_doc_hash # None
        /\ runs[j].design_doc_hash = runs[i].previous_design_doc_hash}

ReviewMatches(i) ==
    {j \in DOMAIN runs :
        /\ runs[i].previous_review_report_hash # None
        /\ runs[j].review_report_hash = runs[i].previous_review_report_hash}

\* C4: the parent of a run is the run with the greatest (timestamp, run_id)
\* among the hash-matching runs that are not the run itself and are strictly
\* earlier; when there is no such run the parent stays unset.
C4_LatestCandidate ==
    LineageDone =>
        \A i \in DOMAIN runs :
            LET matching == IF DocMatches(i) # {} THEN DocMatches(i)
                            ELSE ReviewMatches(i)
                eligible == {j \in matching :
                                j # i /\ runs[j].timestamp < runs[i].timestamp}
            IN  IF eligible = {} THEN runs[i].parent_run_id = None
                ELSE \E j \in eligible :
                        /\ \A k \in eligible : ~KeyLess(runs[j], runs[k])
                        /\ runs[i].parent_run_id = runs[j].run_id

\* C5: when the previous-document digest matches some run, the parent is an
\* (other, earlier) document match or is unset, whatever the report matches
\* are; when it is absent or matches no run, the parent is an (other,
\* earlier) report match if there is one and unset otherwise; a run with
\* neither hint has no parent.
C5_ReportFallback ==
    LineageDone =>
        \A i \in DOMAIN runs :
            LET ok(j) == j # i /\ runs[j].timestamp < runs[i].timestamp
                among(S) == \E j \in S : ok(j) /\ runs[j].run_id = runs[i].parent_run_id
            IN  /\ DocMatches(i) # {} =>
                       \/ runs[i].parent_run_id = None /\ ~\E j \in DocMatches(i) :
                              ok(j) /\ runs[j].run_id # runs[i].run_id
                       \/ runs[i].parent_run_id # None /\ among(DocMatches(i))
                /\ DocMatches(i) = {} =>
                       \/ runs[i].parent_run_id = None /\ ~\E j \in ReviewMatches(i) :
                              ok(j) /\ runs[j].run_id # runs[i].run_id
                       \/ runs[i].parent_run_id # None /\ among(ReviewMatches(i))
                /\ (runs[i].previous_design_doc_hash = None
                    /\ runs[i].previous_review_report_hash = None)
                       => runs[i].parent_run_id = None

\* A run whose document matches are all filtered out and that stays a root
\* although an earlier run matches its previous report, next to a run without
\* previous document whose parent is a report match.
C5_Witness ==
    /\ LineageDone
    /\ \E i \in DOMAIN runs :
           /\ DocMatches(i) # {}
           /\ runs[i].parent_run_id = None
           /\ \E j \in ReviewMatches(i) :
                  /\ runs[j].run_id # runs[i].run_id
                  /\ runs[j].timestamp < runs[i].timestamp
    /\ \E i \in DOMAIN runs :
           /\ runs[i].previous_design_doc_hash = None
           /\ runs[i].parent_run_id # None

\* C6: the records returned by discover_runs have pairwise distinct run ids.
C6_UniqueRunIds ==
    pc # "discover" =>
        \A i, j \in DOMAIN runs : i # j => runs[i].run_id # runs[j].run_id

\* The loaded runs whose directory is d.
RunsOfDir(d) == {i \in DOMAIN runs : runs[i].run_dir = <<d.parent, d.name>>}

\* C7: in the run set that an evaluation returns, a directory whose manifest
\* is absent or does not parse (not text, not JSON, or JSON that is not an
\* object) has no run; every directory whose manifest parses has exactly
\* one run, and one metric per run is produced.
C7_ManifestGate ==
    /\ pc \notin {"discover", "raised"} =>
           /\ \A k \in DOMAIN tree :
                  Cardinality(RunsOfDir(tree[k])) =
                      IF tree[k].manifest = "object" THEN 1 ELSE 0
           /\ \A i \in DOMAIN runs : \E k \in DOMAIN tree : i \in RunsOfDir(tree[k])
    /\ SeqDone =>
           \A k \in DOMAIN sequences : Range(sequences[k]) \subseteq DOMAIN runs
    /\ MetricsDone =>
           /\ DOMAIN run_metrics = DOMAIN runs
           /\ \A i \in DOMAIN runs : run_metrics[i].run_id = runs[i].run_id

\* A tree with a directory without manifest, one whose manifest does not
\* parse, and one with a manifest but neither document nor report.
C7_Witness ==
    /\ pc = "done"
    /\ \E a, b \in DOMAIN tree :
           /\ tree[a].manifest \in {"invalid", "nonobject"}
           /\ RunsOfDir(tree[a]) = {}
           /\ tree[b].manifest = "object"
           /\ tree[b].doc = None /\ tree[b].review = None
           /\ RunsOfDir(tree[b]) # {}

\* The report file exists and is not a JSON object: bytes that are not
\* text, text that is not JSON, or JSON of another type.
Unreadable(review) ==
    /\ review # None
    /\ review = BadBytes \/ ~ReviewLib[review].valid

\* C8: once discovery is over, every directory with a parsable manifest
\* whose report file exists but is not a JSON object has a loaded run with
\* status "MISSING", no issue count and no issue sections; and every run
\* loaded from a directory without report file has no status.
C8_UnreadableReport ==
    pc # "discover" =>
        \A k \in DOMAIN tree :
            /\ (tree[k].manifest = "object" /\ Unreadable(tree[k].review)) =>
                   \E i \in RunsOfDir(tree[k]) :
                       /\ runs[i].qa_status = "MISSING"
                       /\ runs[i].qa_issue_count = None
                       /\ runs[i].qa_issue_sections = {}
            /\ tree[k].review = None =>
                   \A i \in RunsOfDir(tree[k]) : runs[i].qa_status = NoStatus

\* C9: qa_issue_delta_vs_parent is the parent's issue count minus the run's
\* when the run has a resolved parent and both counts are known, and is
\* null otherwise.
C9_IssueDelta ==
    MetricsDone =>
        \A i \in DOMAIN runs :
            LET resolved ==
                    /\ runs[i].parent_run_id # None
                    /\ \E j \in DOMAIN runs : runs[j].run_id = runs[i].parent_run_id
                p == ById(runs, runs[i].parent_run_id)
            IN  IF resolved /\ runs[p].qa_issue_count # None
                            /\ runs[i].qa_issue_count # None
                THEN run_metrics[i].qa_issue_delta_vs_parent
                         = runs[p].qa_issue_count - runs[i].qa_issue_count
                ELSE run_metrics[i].qa_issue_delta_vs_parent = None

\* A chain with a regression by two issues followed by an improvement by
\* one, and a run whose parent's count is unknown.
C9_Witness ==
    /\ MetricsDone
    /\ \E i, j \in DOMAIN runs :
           /\ run_metrics[i].qa_issue_delta_vs_parent = -2
           /\ run_metrics[j].qa_issue_delta_vs_parent = 1
           /\ runs[j].parent_run_id = runs[i].run_id
    /\ \E i \in DOMAIN runs :
           /\ ParentOf(runs, i) # None
           /\ runs[i].qa_issue_count # None
           /\ run_metrics[i].qa_issue_delta_vs_parent = None

NonIncreasing(cs) == \A k \in DOMAIN cs : k > 1 => cs[k] <= cs[k - 1]
NonDecreasing(cs) == \A k \in DOMAIN cs : k > 1 => cs[k] >= cs[k - 1]

\* C10: a sequence is flagged as oscillating exactly when the known issue
\* counts of its runs, in key order, are neither non-increasing nor
\* non-decreasing.
C10_Oscillation ==
    pc = "done" =>
        \A k \in DOMAIN sequences :
            LET ordered == SortByKey(runs, sequences[k])
                counts == [a \in DOMAIN ordered |-> runs[ordered[a]].qa_issue_count]
                known == FilterSeq(counts, LAMBDA c : c # None)
            IN  sequence_summaries[k].oscillation_detected
                    <=> ~(NonIncreasing(known) \/ NonDecreasing(known))

\* The members of the k-th returned sequence in (timestamp, run_id) order,
\* and the last of them.
Ordered(k) == SortByKey(runs, sequences[k])
FinalRun(k) == Ordered(k)[Len(Ordered(k))]

\* C11: a sequence whose final run has status PASS is reported as converged
\* with the reason "Final run passed QA".
C11_FinalPass ==
    pc = "done" =>
        \A k \in DOMAIN sequences :
            runs[FinalRun(k)].qa_status = "PASS" =>
                /\ sequence_summaries[k].converged
                /\ sequence_summaries[k].convergence_reason = "Final run passed QA"

\* C12: for a sequence whose final run has not passed, the verdict is
\* "stable plateau" exactly when the sequence has at least plateau_window
\* runs and, on its last plateau_window runs, all issue counts are known
\* and equal and every run after the first has no introduced issue, a
\* similarity of at least 0.95 and a completion delta of at most 1.0 in
\* absolute value; otherwise it is "no pass and no stable plateau".
C12_Plateau ==
    pc = "done" =>
        \A k \in DOMAIN sequences :
            LET w == SubSeq(Ordered(k), Len(Ordered(k)) - plateau_window + 1,
                            Len(Ordered(k)))
                holds ==
                    /\ \A a \in DOMAIN w :
                           /\ runs[w[a]].qa_issue_count # None
                           /\ runs[w[a]].qa_issue_count = runs[w[1]].qa_issue_count
                    /\ \A a \in DOMAIN w : a > 1 =>
                           /\ run_metrics[w[a]].introduced_issues_vs_parent
                                  \in {0, None}
                           /\ run_metrics[w[a]].doc_similarity_vs_parent # None
                           /\ run_metrics[w[a]].doc_similarity_vs_parent
                                  >= StableSimilarity
                           /\ run_metrics[w[a]].completion_delta_pct_vs_parent # None
                           /\ Abs(run_metrics[w[a]].completion_delta_pct_vs_parent)
                                  <= StableCompletionDelta
            IN  runs[FinalRun(k)].qa_status # "PASS" =>
                    IF Len(sequences[k]) >= plateau_window /\ holds
                    THEN /\ sequence_summaries[k].converged
                         /\ sequence_summaries[k].convergence_reason
                                = "Stable plateau across recent runs"
                    ELSE /\ ~sequence_summaries[k].converged
                         /\ sequence_summaries[k].convergence_reason
                                = "No PASS and no stable plateau with improvement"

\* The selection key of a run: PASS first, then fewer issues (unknown
\* counts last), then higher completion, then later timestamp.
RunKey(i) ==
    << IF runs[i].qa_status = "PASS" THEN 1 ELSE 0,
       IF runs[i].qa_issue_count = None THEN -UnknownCountRank
       ELSE -runs[i].qa_issue_count,
       runs[i].required_sections_completion_pct,
       runs[i].timestamp >>

\* C13: the best issue count and best completion percentage of a sequence
\* are those of a member whose key no other member exceeds.
C13_BestRun ==
    pc = "done" =>
        \A k \in DOMAIN sequences :
            \E b \in Range(sequences[k]) :
                /\ \A c \in Range(sequences[k]) : ~TupleLess(RunKey(b), RunKey(c))
                /\ sequence_summaries[k].best_qa_issue_count = runs[b].qa_issue_count
                /\ sequence_summaries[k].best_completion_pct
                       = runs[b].required_sections_completion_pct

\* C14: every convergence score that is not null lies between 0 and 1.
C14_ScoreRange ==
    MetricsDone =>
        \A i \in DOMAIN runs :
            run_metrics[i].convergence_score # None =>
                /\ run_metrics[i].convergence_score >= 0
                /\ run_metrics[i].convergence_score <= Scale

\* A run with more than twice the issues of its parent (the quality ratio
\* is clamped) next to a parent with no issues, and a run scoring above 0.9.
C14_Witness ==
    /\ MetricsDone
    /\ \E i \in DOMAIN runs :
           /\ ParentOf(runs, i) # None
           /\ runs[ParentOf(runs, i)].qa_issue_count = 0
           /\ runs[i].qa_issue_count >= 2
           /\ run_metrics[i].convergence_score < 2500

\* C15 as stated: a score is produced only for a run with a resolved parent
\* whose own and parent's issue counts are both known.
C15_ScoreOnlyKnownCounts ==
    MetricsDone =>
        \A i \in DOMAIN runs :
            run_metrics[i].convergence_score # None <=>
                /\ ParentOf(runs, i) # None
                /\ runs[i].qa_issue_count # None
                /\ runs[ParentOf(runs, i)].qa_issue_count # None

\* C15 as amended: a score is produced exactly for the runs with a resolved
\* parent, whether or not the issue counts are known.
C15_ScoreIffParent ==
    MetricsDone =>
        \A i \in DOMAIN runs :
            run_metrics[i].convergence_score # None <=> ParentOf(runs, i) # None

\* A run with a resolved parent and an unknown issue count that has a score.
C15_Witness ==
    /\ MetricsDone
    /\ \E i \in DOMAIN runs :
           /\ ParentOf(runs, i) # None
           /\ runs[i].qa_issue_count = None
           /\ run_metrics[i].convergence_score # None
    /\ \E i \in DOMAIN runs :
           /\ ParentOf(runs, i) = None
           /\ run_metrics[i].convergence_score = None

\* C16 as stated: "baseline" exactly without resolved parent; otherwise
\* "converging" when the score reaches the threshold, "regressing" when it
\* is below 0.45, "mixed" in the remaining cases.
C16_LabelCases ==
    MetricsDone =>
        \A i \in DOMAIN runs :
            LET m == run_metrics[i]
            IN  /\ m.convergence_label = "baseline" <=> ParentOf(runs, i) = None
                /\ ParentOf(runs, i) # None =>
                       /\ m.convergence_score >= convergence_threshold
                              => m.convergence_label = "converging"
                       /\ m.convergence_score < RegressingBelow
                              => m.convergence_label = "regressing"
                       /\ (m.convergence_score < convergence_threshold
                           /\ m.convergence_score >= RegressingBelow)
                              => m.convergence_label = "mixed"

\* C16 as amended: the cases apply in that order, so "regressing" needs a
\* score below 0.45 that is also below the threshold.
C16_LabelOrdered ==
    MetricsDone =>
        \A i \in DOMAIN runs :
            LET m == run_metrics[i]
            IN  /\ m.convergence_label = "baseline" <=> ParentOf(runs, i) = None
                /\ ParentOf(runs, i) # None =>
                       /\ m.convergence_score >= convergence_threshold
                              => m.convergence_label = "converging"
                       /\ (m.convergence_score < convergence_threshold
                           /\ m.convergence_score < RegressingBelow)
                              => m.convergence_label = "regressing"
                       /\ (m.convergence_score < convergence_threshold
                           /\ m.convergence_score >= RegressingBelow)
                              => m.convergence_label = "mixed"

\* A run labelled "converging" with a score below 0.45, under a threshold
\* below 0.45.
C16_Witness ==
    /\ MetricsDone
    /\ convergence_threshold < RegressingBelow
    /\ \E i \in DOMAIN runs :
           /\ run_metrics[i].convergence_label = "converging"
           /\ run_metrics[i].convergence_score < RegressingBelow
    /\ \E i \in DOMAIN runs : run_metrics[i].convergence_label = "baseline"

\* C17: resolved, introduced and unchanged are the sizes of P \ R, R \ P
\* and P \cap R for the parent's sections P and the run's sections R; the
\* Jaccard index is 0 when P and R are disjoint, 1 when they are equal and
\* not empty, and between 0 and 1 always.
C17_IssueAlgebra ==
    MetricsDone =>
        \A i \in DOMAIN runs :
            ParentOf(runs, i) # None =>
                LET P == runs[ParentOf(runs, i)].qa_issue_sections
                    R == runs[i].qa_issue_sections
                    m == run_metrics[i]
                IN  /\ m.resolved_issues_vs_parent = Cardinality(P \ R)
                    /\ m.introduced_issues_vs_parent = Cardinality(R \ P)
                    /\ m.unchanged_issues_vs_parent = Cardinality(P \cap R)
                    /\ m.resolved_issues_vs_parent + m.unchanged_issues_vs_parent
                           = Cardinality(P)
                    /\ m.introduced_issues_vs_parent + m.unchanged_issues_vs_parent
                           = Cardinality(R)
                    /\ P \cap R = {} => m.issue_jaccard_vs_parent = 0
                    /\ (P = R /\ P # {}) => m.issue_jaccard_vs_parent = Scale
                    /\ m.issue_jaccard_vs_parent >= 0
                    /\ m.issue_jaccard_vs_parent <= Scale

\* Two runs with a parent: one whose sections are disjoint from the
\* parent's, one whose sections overlap the parent's in part.
C17_Witness ==
    /\ MetricsDone
    /\ \E i \in DOMAIN runs :
           /\ ParentOf(runs, i) # None
           /\ runs[i].qa_issue_sections \cap
                  runs[ParentOf(runs, i)].qa_issue_sections = {}
    /\ \E i \in DOMAIN runs :
           /\ ParentOf(runs, i) # None
           /\ run_metrics[i].issue_jaccard_vs_parent \notin {0, Scale}

\* C18: the similarity of a run is null exactly when it has no resolved
\* parent or its own or its parent's document text is empty; a run with a
\* parent and a null similarity is scored with a stability term of 0 and is
\* never a later member of a window that is reported as a stable plateau.
C18_NullSimilarity ==
    /\ MetricsDone =>
           \A i \in DOMAIN runs :
               LET p == ParentOf(runs, i)
                   m == run_metrics[i]
               IN  /\ m.doc_similarity_vs_parent = None <=>
                          \/ p = None
                          \/ runs[i].design_doc_text = <<>>
                          \/ runs[p].design_doc_text = <<>>
                   /\ (p # None /\ m.doc_similarity_vs_parent = None) =>
                          \E up \in BOOLEAN :
                              m.convergence_score =
                                  ConvergenceScore(
                                      runs[p].qa_issue_count, runs[i].qa_issue_count,
                                      m.introduced_issues_vs_parent,
                                      m.completion_delta_pct_vs_parent, 0, up)
    /\ pc = "done" =>
           \A k \in DOMAIN sequences :
               sequence_summaries[k].convergence_reason
                       = "Stable plateau across recent runs" =>
                   /\ Len(sequences[k]) >= plateau_window
                   /\ \A a \in 2..plateau_window :
                          run_metrics[Ordered(k)[Len(Ordered(k)) - plateau_window
                                                 + a]].doc_similarity_vs_parent
                              # None

\* C19: the evaluation of a tree without any parsable manifest (the empty
\* tree included, which is also what a missing directory yields) does not
\* raise and returns zero runs, zero sequences and no metrics or summaries;
\* and the lookups of the later stages never fail: every returned sequence
\* has a first and a last run, every member's run id has a metric, and
\* there is one summary per sequence.
C19_NeverRaises ==
    /\ (\A k \in DOMAIN tree : tree[k].manifest # "object") =>
           /\ pc # "raised"
           /\ pc = "done" =>
                  /\ Len(runs) = 0
                  /\ Len(sequences) = 0
                  /\ run_metrics = <<>>
                  /\ sequence_summaries = <<>>
    /\ SeqDone =>
           \A k \in DOMAIN sequences :
               /\ sequences[k] # <<>>
               /\ Range(sequences[k]) \subseteq DOMAIN runs
    /\ MetricsDone =>
           \A k \in DOMAIN sequences : \A i \in Range(sequences[k]) :
               \E j \in DOMAIN run_metrics : run_metrics[j].run_id = runs[i].run_id
    /\ pc = "done" => Len(sequence_summaries) = Len(sequences)

\* Parent, sequence id and sequence index of every run, by run id.
LineageOf(rs) ==
    [id \in RunIds(rs) |->
        LET r == rs[ById(rs, id)]
        IN  <<r.parent_run_id, r.sequence_id, r.sequence_index>>]

\* The returned sequences as lists of run ids.
SequenceIds(rs, seqs) ==
    [k \in DOMAIN seqs |-> [a \in DOMAIN seqs[k] |-> rs[seqs[k][a]].run_id]]

\* Run i has at least two different parent candidates left after the filter
\* of line 193, and they are listed against the key order.
SeveralCandidates(i) ==
    LET cands == ParentCandidates(runs, i)
    IN  \E a, b \in DOMAIN cands :
            a < b /\ KeyLess(runs[cands[b]], runs[cands[a]])

\* C20: for runs with pairwise distinct ids supplied in any order, the
\* parent of every run after reconstruct_lineage, and the parent, sequence
\* id and sequence index of every run and the returned sequences after
\* assign_sequences, are those obtained from the same runs in the order
\* discover_runs returns them (linked, then base); and a run with parent
\* candidates gets the id of one of them as parent.
C20_OrderIndependent ==
    LineageDone =>
        \A loaded \in {DiscoverRuns(tree)} :
        \A linked \in {ReconstructLineage(loaded)} :
            /\ \A i \in DOMAIN runs :
                   /\ runs[i].parent_run_id =
                          linked[ById(linked, runs[i].run_id)].parent_run_id
                   /\ ParentCandidates(runs, i) # <<>> =>
                          \E c \in Range(ParentCandidates(runs, i)) :
                              runs[i].parent_run_id = runs[c].run_id
            /\ SeqDone =>
                   \A base \in {AssignSequences(linked)} :
                       /\ LineageOf(runs) = LineageOf(base.runs)
                       /\ SequenceIds(runs, sequences) =
                              SequenceIds(base.runs, base.sequences)

\* Both stages ran on runs supplied out of key order, one of which has two
\* parent candidates listed against the key order, and two sequences came
\* back.
C20_Witness ==
    /\ pc = "metrics"
    /\ \E i, j \in DOMAIN runs : i < j /\ KeyLess(runs[j], runs[i])
    /\ \E i \in DOMAIN runs : SeveralCandidates(i)
    /\ Len(sequences) = 2

\* C21: a step of compute_run_metrics or summarize_sequences leaves the
\* list of RunRecords as it is; a step of reconstruct_lineage changes no
\* field but parent_run_id; a step of assign_sequences changes no field but
\* sequence_id and sequence_index; none of them adds, drops or moves a run.
C21_Frame ==
    [][/\ pc \in {"metrics", "summaries"} => runs' = runs
       /\ pc = "lineage" =>
              /\ DOMAIN runs' = DOMAIN runs
              /\ \A i \in DOMAIN runs :
                     [runs'[i] EXCEPT !.parent_run_id = runs[i].parent_run_id]
                         = runs[i]
       /\ pc = "sequences" =>
              /\ DOMAIN runs' = DOMAIN runs
              /\ \A i \in DOMAIN runs :
                     [runs'[i] EXCEPT !.sequence_id = runs[i].sequence_id,
                                      !.sequence_index = runs[i].sequence_index]
                         = runs[i]]_vars

\* A finished evaluation in which a run got a parent, a sequence id and a
\* sequence index above 1, and a convergence score was computed for it.
C21_Witness ==
    /\ pc = "done"
    /\ \E i \in DOMAIN runs :
           /\ runs[i].parent_run_id # None
           /\ runs[i].sequence_id # NoSeq
           /\ runs[i].sequence_index > 1
           /\ run_metrics[i].convergence_score # None
    /\ sequence_summaries # <<>>

\* The sequences (by position in the returned list) that hold run i.
SequencesOf(i) == {k \in DOMAIN sequences : i \in Range(sequences[k])}

\* Run i after following its parent link n times (i itself where the
\* resolved parent is missing).
RECURSIVE Up(_, _)
Up(i, n) ==
    IF n = 0 \/ ParentOf(runs, i) = None THEN i
    ELSE Up(ParentOf(runs, i), n - 1)

\* C22: after reconstruct_lineage and assign_sequences, every returned
\* sequence has exactly one member without resolved parent, the resolved
\* parent of every other member is a member too, the parent links lead from
\* every member to that root, and a run and its resolved parent, where both
\* are placed, are in the same sequences.
C22_RootedSequences ==
    SeqDone =>
        /\ \A k \in DOMAIN sequences :
               LET members == Range(sequences[k])
                   roots == {i \in members : ParentOf(runs, i) = None}
               IN  /\ Cardinality(roots) = 1
                   /\ \A i \in members :
                          /\ ParentOf(runs, i) # None =>
                                 ParentOf(runs, i) \in members
                          /\ Up(i, Len(runs)) \in roots
        /\ \A i \in DOMAIN runs :
               (/\ ParentOf(runs, i) # None
                /\ SequencesOf(i) # {}
                /\ SequencesOf(ParentOf(runs, i)) # {}) =>
                   SequencesOf(i) = SequencesOf(ParentOf(runs, i))

\* C23: in every returned sequence, the resolved parent of the member with
\* sequence_index i > 1 is the member with sequence_index i - 1, so that
\* the values "vs parent" of a member are values against its predecessor
\* in the sequence.
C23_LinearChain ==
    SeqDone =>
        \A k \in DOMAIN sequences : \A a \in DOMAIN sequences[k] :
            runs[sequences[k][a]].sequence_index > 1 =>
                /\ ParentOf(runs, sequences[k][a]) # None
                /\ \E b \in DOMAIN sequences[k] :
                       /\ sequences[k][b] = ParentOf(runs, sequences[k][a])
                       /\ runs[sequences[k][b]].sequence_index =
                              runs[sequences[k][a]].sequence_index - 1

\* The run ids of the list are pairwise distinct.
UniqueIds == \A i, j \in DOMAIN runs : i # j => runs[i].run_id # runs[j].run_id

\* Run i names a parent that no run of the list carries as id.
Dangling(i) ==
    Truthy(runs[i].parent_run_id) /\ runs[i].parent_run_id \notin RunIds(runs)

\* C24: a run whose parent_run_id is the id of no run is the root of a
\* returned sequence: it is a member, the sequence is numbered and named
\* after it, every other member has a parent in the list, and the runs that
\* name it as parent are members too; and its metric is labelled "baseline"
\* with every relative field null.
C24_DanglingParent ==
    \A i \in DOMAIN runs : Dangling(i) =>
        /\ SeqDone =>
               \E k \in DOMAIN sequences :
                   LET members == Range(sequences[k])
                   IN  /\ i \in members
                       /\ runs[i].sequence_id = SeqId(runs[i], k)
                       /\ \A j \in members \ {i} : HasLoadedParent(runs, j)
                       /\ \A j \in DOMAIN runs :
                              runs[j].parent_run_id = runs[i].run_id =>
                                  j \in members
        /\ MetricsDone =>
               LET m == run_metrics[i]
               IN  /\ m.convergence_label = "baseline"
                   /\ m.resolved_issues_vs_parent = None
                   /\ m.introduced_issues_vs_parent = None
                   /\ m.unchanged_issues_vs_parent = None
                   /\ m.issue_jaccard_vs_parent = None
                   /\ m.doc_similarity_vs_parent = None
                   /\ m.completion_delta_pct_vs_parent = None
                   /\ m.qa_issue_delta_vs_parent = None
                   /\ m.convergence_score = None

\* C25: on every list of runs assign_sequences returns, with the same runs
\* and at most one sequence per run; and every run that no root traversal
\* reaches (following parent links from it leads to no run without listed
\* parent: it is on a cycle of parent links or descends from one) is the
\* only member of a returned sequence, has sequence_index 1 and the id of
\* that sequence, and that sequence comes after every sequence that holds a
\* root.
C25_OrphansTerminate ==
    /\ pc = "sequences" =>
           \A r \in {AssignSequences(runs)} :
               /\ DOMAIN r.runs = DOMAIN runs
               /\ Len(r.sequences) <= Len(runs)
    /\ SeqDone =>
           \A i \in DOMAIN runs : ParentOf(runs, Up(i, Len(runs))) # None =>
               \E k \in DOMAIN sequences :
                   /\ sequences[k] = <<i>>
                   /\ runs[i].sequence_index = 1
                   /\ runs[i].sequence_id = SeqId(runs[i], k)
                   /\ \A r \in DOMAIN sequences :
                          (\E j \in Range(sequences[r]) :
                               ~HasLoadedParent(runs, j)) => r < k

\* C28: for runs with pairwise distinct ids, after reconstruct_lineage every
\* parent id is the id of a loaded run and the parent links of every run end
\* at a run without parent; after assign_sequences there are as many
\* sequences as runs without parent, and the first member of every
\* sequence is a run without parent with sequence_index 1.
C28_NoOrphans ==
    UniqueIds =>
        /\ LineageDone =>
               \A i \in DOMAIN runs :
                   /\ runs[i].parent_run_id # None =>
                          runs[i].parent_run_id \in RunIds(runs)
                   /\ runs[Up(i, Len(runs))].parent_run_id = None
        /\ SeqDone =>
               /\ Len(sequences) =
                      Cardinality({i \in DOMAIN runs : runs[i].parent_run_id = None})
               /\ \A k \in DOMAIN sequences :
                      /\ sequences[k] # <<>>
                      /\ runs[sequences[k][1]].parent_run_id = None
                      /\ runs[sequences[k][1]].sequence_index = 1
                      /\ \A a \in DOMAIN sequences[k] :
                             runs[sequences[k][a]].sequence_index = 1 => a = 1

\* Three runs with distinct ids after both stages: two sequences, one of
\* them with a root and a child.
C28_Witness ==
    /\ SeqDone
    /\ UniqueIds
    /\ Len(runs) = 3
    /\ Len(sequences) = 2
    /\ \E i \in DOMAIN runs : runs[i].parent_run_id # None

\* C29: in the summary of a sequence without a PASS run, the best issue
\* count is the least known issue count of the members (null when none is
\* known) and is not above a known final count; the final issue count and
\* completion percentage are those of the member that is last in key
\* order; and the start timestamp is not after the end timestamp.
C29_SummaryFields ==
    pc = "done" =>
        \A k \in DOMAIN sequences :
            LET sm == sequence_summaries[k]
                known == {runs[i].qa_issue_count :
                             i \in {j \in Range(sequences[k]) :
                                       runs[j].qa_issue_count # None}}
                last == CHOOSE i \in Range(sequences[k]) :
                            \A j \in Range(sequences[k]) : ~KeyLess(runs[i], runs[j])
            IN  /\ (\A i \in Range(sequences[k]) : runs[i].qa_status # "PASS") =>
                       /\ known = {} => sm.best_qa_issue_count = None
                       /\ known # {} =>
                              /\ sm.best_qa_issue_count \in known
                              /\ \A c \in known : sm.best_qa_issue_count <= c
                       /\ sm.final_qa_issue_count # None =>
                              /\ sm.best_qa_issue_count # None
                              /\ sm.best_qa_issue_count <= sm.final_qa_issue_count
                /\ sm.final_qa_issue_count = runs[last].qa_issue_count
                /\ sm.final_completion_pct =
                       runs[last].required_sections_completion_pct
                /\ sm.start_timestamp <= sm.end_timestamp

(***************************************************************************)
(* run_top_orchestrator (top_orchestrator.py).  `orch` is the frame of one *)
(* call: its arguments crew_enabled and max_runs, its locals runs,         *)
(* last_exit, last_report and current_output_dir, and its position pc.     *)
(* The path locals (current_run_dir, current_manifest_path,                *)
(* current_prev_doc_path, current_prev_review_path) are functions of       *)
(* current_output_dir and are not carried.  `fs` is the list of run        *)
(* directories in creation order; a directory is named by its position,    *)
(* the directory passed in as output_dir being the first.  A directory     *)
(* holds design_doc.md (doc: None when absent, BadBytes when not UTF-8     *)
(* text, else the number of a text of OrchDocLib), review_report.json      *)
(* (review), the two files                                                 *)
(* under inputs/ (prev_doc, prev_review) and run_manifest.json             *)
(* (manifest_written, qa_status, qa_issues); crew_calls and qa_calls count *)
(* the calls of run_crew and _run_qa made for it.                          *)
(* A report is what _load_report makes of review_report.json: kind "none"  *)
(* is None (no file, or not JSON), kind "empty" is the object {} or        *)
(* another JSON value that counts as false, kind "object" a non-empty      *)
(* object with its status (NoStatus when the key is absent) and the length *)
(* of its issues list, and kind "bad" a file on which lines 114-120 (or    *)
(* 76-79, 90-93) raise: bytes that are not UTF-8 text (UnicodeDecodeError  *)
(* at line 15, which catches JSONDecodeError only), a JSON value that     *)
(* counts as true and is no object (AttributeError from .get), or an       *)
(* object whose issues have no length (TypeError from len).                *)
(***************************************************************************)
MaxOrchRuns == 3
MaxIssues == 1

\* The documents the crew and earlier runs leave behind, as character
\* codes: "a\nb", "a\r\nb" and "c".
OrchDocLib ==
    << <<97, 10, 98>>, <<97, 13, 10, 98>>, <<99>> >>

\* target.write_text(source.read_text(encoding="utf-8"), encoding="utf-8")
\* (run_io.py lines 38, 50, 140, 152): read_text opens the file in text
\* mode, which turns "\r\n" and "\r" into "\n"; write_text writes the
\* line feeds as they are.  The copy of document `content` is the
\* document with the translated characters.
CopyText(content) ==
    IF content = None THEN None
    ELSE CHOOSE k \in DOMAIN OrchDocLib :
            OrchDocLib[k] = UnifyLineEnds(OrchDocLib[content])

ReportNone == [kind |-> "none", status |-> NoStatus, issues |-> 0]

Reports ==
    {ReportNone, [kind |-> "empty", status |-> NoStatus, issues |-> 0]}
        \cup [kind : {"object"}, status : {"PASS", "FAIL", NoStatus},
              issues : 0..MaxIssues]

ReportBad == [kind |-> "bad", status |-> NoStatus, issues |-> 0]

\* `if last_report:` (lines 77, 91, 116).
ReportTruthy(report) == report.kind = "object"

\* What one call of _run_qa does: it raises (qa.main reads design_doc.md,
\* the section files and critique_report.json as UTF-8 text and catches
\* no UnicodeDecodeError) and leaves review_report.json as it was, or it
\* returns an exit code and leaves a review_report.json.
QaOutcomes ==
    {[raises |-> TRUE, exit |-> 0, report |-> ReportNone]}
        \cup [raises : {FALSE}, exit : {0, 1}, report : Reports \cup {ReportBad}]

\* What one call of run_crew does: it writes a document (BadBytes: one
\* that is not UTF-8 text), or returns without one after a task failure
\* it caught, or raises.
CrewOutcomes ==
    {[raises |-> TRUE, doc |-> None]}
        \cup [raises : {FALSE}, doc : {None, BadBytes} \cup DOMAIN OrchDocLib]

\* create_run_dir: a new directory without files.
CreateRunDir ==
    [doc |-> None, review |-> ReportNone,
     prev_doc |-> None, prev_review |-> ReportNone,
     manifest_written |-> FALSE, qa_status |-> NoStatus, qa_issues |-> None,
     crew_calls |-> 0, qa_calls |-> 0]

\* create_run_dir followed by copy_run_inputs_from_output from directory
\* src: the new directory has no manifest yet.  The report is held as what
\* json.loads makes of it, which the translation of line ends between its
\* tokens does not change.
NewRunDir(dirs, src) ==
    [CreateRunDir EXCEPT !.prev_doc = CopyText(dirs[src].doc),
                         !.prev_review = dirs[src].review]

\* write_run_manifest: qa_status and qa_issues are null until QA has run.
WriteRunManifest(dirs, d) ==
    [dirs EXCEPT ![d].manifest_written = TRUE, ![d].qa_status = NoStatus,
                 ![d].qa_issues = None]

UpdateRunManifest(dirs, d, qa_status, qa_issues) ==
    [dirs EXCEPT ![d].qa_status = qa_status, ![d].qa_issues = qa_issues]

\* _run_qa(d) and _load_report of the report it leaves.
RunQa(dirs, d, q) ==
    [dirs EXCEPT ![d].review = q.report, ![d].qa_calls = @ + 1]

\* `current_status or "UNKNOWN"` (line 119); last_report.get("status",
\* "UNKNOWN") gives the same for the reports considered.
StatusOrUnknown(report) ==
    IF report.status = NoStatus THEN "UNKNOWN" ELSE report.status

\* _run_qa(d), _load_report and the manifest update that follow a call of
\* _run_qa for directory d (lines 74-80, 88-94, 112-121): the directories
\* afterwards.  When _run_qa raises nothing else happens; when the report
\* cannot be used the manifest is not updated.
AfterQa(dirs, d, q) ==
    IF q.raises THEN [dirs EXCEPT ![d].qa_calls = @ + 1]
    ELSE IF ReportTruthy(q.report)
    THEN UpdateRunManifest(RunQa(dirs, d, q), d,
                           StatusOrUnknown(q.report), q.report.issues)
    ELSE RunQa(dirs, d, q)

\* The call of _run_qa or the handling of its report raises.
QaRaises(q) == q.raises \/ q.report.kind = "bad"

\* Lines 74-81 and 86-95: QA alone on the directory passed in.
QaOnlyPath(q) ==
    /\ fs' = AfterQa(fs, 1, q)
    /\ orch' = IF q.raises THEN [orch EXCEPT !.pc = "raised"]
               ELSE IF QaRaises(q)
               THEN [orch EXCEPT !.pc = "raised", !.last_exit = q.exit]
               ELSE [orch EXCEPT !.pc = "returned", !.last_exit = q.exit,
                                 !.last_report = q.report]

QaOnly ==
    /\ orch.pc = "start"
    /\ ~orch.crew_enabled
    /\ \E q \in QaOutcomes : QaOnlyPath(q)
    /\ UNCHANGED <<tree, plateau_window, convergence_threshold,
                   runs, sequences, run_metrics, sequence_summaries, pc>>

Preflight ==
    /\ orch.pc = "start"
    /\ orch.crew_enabled
    /\ \/ /\ orch' = [orch EXCEPT !.pc = "while", !.preflight_ok = TRUE]
          /\ fs' = fs
       \/ \E q \in QaOutcomes : QaOnlyPath(q)
    /\ UNCHANGED <<tree, plateau_window, convergence_threshold,
                   runs, sequences, run_metrics, sequence_summaries, pc>>

LoopTest(o) == o.runs < o.max_runs

LoopExit ==
    /\ orch.pc = "while"
    /\ ~LoopTest(orch)
    /\ orch' = [orch EXCEPT !.pc = "returned"]
    /\ UNCHANGED <<tree, plateau_window, convergence_threshold,
                   runs, sequences, run_metrics, sequence_summaries, pc, fs>>

RunCrew ==
    /\ orch.pc = "while"
    /\ LoopTest(orch)
    /\ \E c \in CrewOutcomes :
         LET d == orch.current_output_dir
         IN  IF c.raises
             THEN /\ fs' = [fs EXCEPT ![d].crew_calls = @ + 1]
                  /\ orch' = [orch EXCEPT !.pc = "raised"]
             ELSE /\ fs' = [fs EXCEPT ![d].crew_calls = @ + 1,
                                      ![d].doc = IF c.doc = None THEN @ ELSE c.doc]
                  /\ orch' = [orch EXCEPT !.pc = "qa", !.runs = @ + 1]
    /\ UNCHANGED <<tree, plateau_window, convergence_threshold,
                   runs, sequences, run_metrics, sequence_summaries, pc>>

LoopBreaks_OnlyOnPass(o, report) ==
    \/ report.status = "PASS"
    \/ o.runs >= o.max_runs

\* `if current_status != "FAIL": break` and `if runs >= max_runs: break`.
LoopBreaks(o, report) ==
    \/ report.status # "FAIL"
    \/ o.runs >= o.max_runs

QaAndDecide ==
    /\ orch.pc = "qa"
    /\ \E q \in QaOutcomes :
         LET d == orch.current_output_dir
         IN  /\ fs' = AfterQa(fs, d, q)
             /\ orch' = IF q.raises THEN [orch EXCEPT !.pc = "raised"]
                        ELSE IF QaRaises(q)
                        THEN [orch EXCEPT !.pc = "raised", !.last_exit = q.exit]
                        ELSE [orch EXCEPT
                                !.last_exit = q.exit, !.last_report = q.report,
                                !.pc = IF LoopBreaks(orch, q.report)
                                       THEN "returned" ELSE "prepare"]
    /\ UNCHANGED <<tree, plateau_window, convergence_threshold,
                   runs, sequences, run_metrics, sequence_summaries, pc>>

RerunSource_First(o) == 1

\* previous_output_dir (line 143): the directory whose outputs the next
\* run directory copies in.
RerunSource(o) == o.current_output_dir

\* Lines 143-148.  copy_run_inputs_from_output reads the document as
\* UTF-8 text (run_io.py line 140): when it is not, the call raises and
\* the directory just created stays without copies and without manifest.
PrepareRerun ==
    /\ orch.pc = "prepare"
    /\ IF fs[RerunSource(orch)].doc = BadBytes
       THEN /\ fs' = Append(fs, CreateRunDir)
            /\ orch' = [orch EXCEPT !.pc = "raised",
                                    !.current_output_dir = Len(fs) + 1]
       ELSE /\ fs' = Append(fs, NewRunDir(fs, RerunSource(orch)))
            /\ orch' = [orch EXCEPT !.pc = "manifest",
                                    !.current_output_dir = Len(fs) + 1]
    /\ UNCHANGED <<tree, plateau_window, convergence_threshold,
                   runs, sequences, run_metrics, sequence_summaries, pc>>

WriteManifest ==
    /\ orch.pc = "manifest"
    /\ fs' = WriteRunManifest(fs, orch.current_output_dir)
    /\ orch' = [orch EXCEPT !.pc = "while"]
    /\ UNCHANGED <<tree, plateau_window, convergence_threshold,
                   runs, sequences, run_metrics, sequence_summaries, pc>>

\* The reports an earlier run may have left behind.
PriorReviews ==
    {ReportNone,
     [kind |-> "object", status |-> "PASS", issues |-> 0],
     [kind |-> "object", status |-> "FAIL", issues |-> 1]}

\* The directory the caller prepared and passed in as output_dir:
\* create_run_dir, then prepare_previous_inputs (main.py line 51) or
\* prepare_previous_inputs_for_first_run, which copy the document and the
\* report of an earlier run (or of outputs/) into inputs/ when they exist,
\* then write_run_manifest.
FirstRunDir(prior_doc, prior_review) ==
    [doc |-> None, review |-> ReportNone,
     prev_doc |-> CopyText(prior_doc), prev_review |-> prior_review,
     manifest_written |-> TRUE, qa_status |-> NoStatus, qa_issues |-> None,
     crew_calls |-> 0, qa_calls |-> 0]

InitOrch ==
    /\ \E ce \in BOOLEAN : \E mr \in 0..MaxOrchRuns :
           orch = [pc |-> "start", crew_enabled |-> ce, max_runs |-> mr,
                   preflight_ok |-> FALSE, runs |-> 0, last_exit |-> 0,
                   last_report |-> ReportNone, current_output_dir |-> 1]
    /\ \E pd \in {None} \cup DOMAIN OrchDocLib : \E pr \in PriorReviews :
           fs = <<FirstRunDir(pd, pr)>>
    /\ tree = <<>>
    /\ plateau_window = 2
    /\ convergence_threshold = 7500
    /\ runs = <<>>
    /\ sequences = <<>>
    /\ run_metrics = <<>>
    /\ sequence_summaries = <<>>
    /\ pc = "discover"

NextOrch ==
    \/ QaOnly
    \/ Preflight
    \/ LoopExit
    \/ RunCrew
    \/ QaAndDecide
    \/ PrepareRerun
    \/ WriteManifest

\* Every call made by run_top_orchestrator returns or raises, so the
\* function keeps taking steps until it has returned or raised.
SpecOrch == InitOrch /\ [][NextOrch]_vars /\ WF_vars(NextOrch)

RECURSIVE SumCalls(_, _)
SumCalls(counts, n) ==
    IF n = 0 THEN 0 ELSE counts[n] + SumCalls(counts, n - 1)

\* The number of calls of run_crew made so far.
CrewCalls == SumCalls([d \in DOMAIN fs |-> fs[d].crew_calls], Len(fs))

\* The number of calls of _run_qa made so far.
QaCalls == SumCalls([d \in DOMAIN fs |-> fs[d].qa_calls], Len(fs))

Finished == orch.pc \in {"returned", "raised"}

\* C26: once the preflight check has succeeded, run_crew is never called
\* more than max_runs times; when run_top_orchestrator returns it has
\* called run_crew exactly min(max_runs, k) times, k being the position of
\* the first QA result whose status is not FAIL (so once when the first
\* result passes, and again after every FAIL); and the call always
\* finishes.  The n-th QA result of the loop is the one for the n-th
\* directory.  At every moment, and so also when the call ends in an
\* exception, the calls made so far do not exceed min(max_runs, k) for the
\* results so far, every call after the first follows a result FAIL, and
\* no directory is created after a result that is not FAIL.
C26_CrewRuns ==
    /\ [](orch.preflight_ok =>
             LET notFail == {d \in DOMAIN fs :
                               /\ fs[d].qa_calls > 0
                               /\ fs[d].review.status # "FAIL"}
                 expected ==
                     IF \E d \in notFail : d <= orch.max_runs
                     THEN CHOOSE d \in notFail : \A e \in notFail : d <= e
                     ELSE orch.max_runs
             IN  /\ CrewCalls <= expected
                 /\ orch.pc = "returned" => CrewCalls = expected
                 /\ \A d \in DOMAIN fs : (d > 1 /\ fs[d].crew_calls > 0) =>
                        /\ fs[d - 1].crew_calls = 1
                        /\ fs[d - 1].qa_calls = 1
                        /\ fs[d - 1].review.status = "FAIL"
                 /\ \A d \in notFail : d = Len(fs))
    /\ (orch.pc = "start") ~> Finished

C26_Witness ==
    /\ orch.pc = "returned"
    /\ orch.preflight_ok
    /\ orch.max_runs = 3
    /\ CrewCalls = 2
    /\ fs[1].review.status = "FAIL"
    /\ fs[2].review.status = "PASS"

\* C27: when run_top_orchestrator has finished, _run_qa has been called at
\* least once, whatever crew_enabled, the preflight check, run_crew and
\* max_runs were; and every call of run_crew has been followed by a call
\* of _run_qa for the same directory.
C27_QaAlwaysRuns ==
    /\ Finished => QaCalls >= 1
    /\ orch.pc \notin {"start", "qa"} =>
           \A d \in DOMAIN fs : fs[d].qa_calls >= fs[d].crew_calls

\* C30: in the rerun loop run_crew is called at most once in a directory,
\* and only in one whose manifest has been written; each directory
\* prepared for a rerun (its manifest is written) holds, as previous
\* document, the text of the document of the directory created just
\* before it with its line ends as read_text gives them (none when that
\* directory has no document) and, as previous report, the report of that
\* directory; when a directory is created, the
\* manifest of the directory before it carries that run's QA status and
\* issue count; and the directory returned is the last one in which
\* run_crew was called.
C30_RerunDirs ==
    /\ \A d \in DOMAIN fs :
           /\ fs[d].crew_calls <= 1
           /\ fs[d].crew_calls > 0 => fs[d].manifest_written
    /\ \A d \in DOMAIN fs : d > 1 =>
           /\ fs[d].manifest_written =>
                  /\ \/ fs[d].prev_doc = None /\ fs[d - 1].doc = None
                     \/ /\ fs[d].prev_doc \in DOMAIN OrchDocLib
                        /\ fs[d - 1].doc \in DOMAIN OrchDocLib
                        /\ OrchDocLib[fs[d].prev_doc]
                               = UnifyLineEnds(OrchDocLib[fs[d - 1].doc])
                  /\ fs[d].prev_review = fs[d - 1].review
           /\ fs[d - 1].crew_calls = 1
           /\ fs[d - 1].qa_calls = 1
           /\ fs[d - 1].qa_status = fs[d - 1].review.status
           /\ fs[d - 1].qa_issues = fs[d - 1].review.issues
    /\ (orch.pc = "returned" /\ CrewCalls > 0) =>
           /\ fs[orch.current_output_dir].crew_calls > 0
           /\ \A e \in DOMAIN fs :
                  fs[e].crew_calls > 0 => e <= orch.current_output_dir

\* A call that returned after two reruns; the second run left a document
\* with "\r\n" line ends, other than the first run's, and the third run's
\* directory holds its text with "\n" line ends.
C30_Witness ==
    /\ orch.pc = "returned"
    /\ Len(fs) = 3
    /\ fs[3].crew_calls = 1
    /\ fs[1].doc = 3
    /\ fs[2].doc = 2
    /\ fs[1].review # fs[2].review
    /\ fs[3].prev_doc = 1
    /\ fs[3].prev_doc # fs[2].doc

====
